---- MODULE Spec2Model ----
(***************************************************************************)
(* A model of prantlf/esbuild: the command line driver (pkg/cli), the     *)
(* build driver (pkg/api) and the import-star linking behaviour that the   *)
(* bundler tests pin down.                                                 *)
(***************************************************************************)
EXTENDS Integers, Sequences, FiniteSets, TLC

VARIABLES
    \* ---- pkg/cli: runImpl ----
    rawArgs,            \* os.Args[1:] as given to runImpl
    osArgs,             \* the argument list after "--summary" was filtered out
    shouldPrintSummary, \* runImpl's local of that name
    envNodePath,        \* NODE_PATH as runImpl found it: "unread", "set" or "unset"
    cpc,                \* where runImpl is
    pcmd,               \* the command the arguments select: "build", "analyse",
                        \* "transform", or "serve" for serveImpl; "none" before
    pargs,              \* the osArgs parameter of the running parseOptionsImpl
    pidx,               \* index of the argument its loop looks at next
    pst,                \* its option pointers, locals and outcome
    buildOptions,       \* *api.BuildOptions returned by parseOptionsForRun, or NIL
    transformOptions,   \* *api.TransformOptions, or NIL
    analyseOptions,     \* *api.AnalyseOptions, or NIL
    parseErr,           \* the error returned by parseOptionsForRun, "" for nil
    stdinRead,          \* ioutil.ReadAll(os.Stdin): "none" before, "ok" or "failed"
    apiErrors,          \* len(result.Errors) of the API call runImpl made, -1 before
    exitCode,           \* the value runImpl returned, -1 while it has not returned
    summaryPrinted,     \* TRUE once printSummary ran
    \* ---- pkg/api: buildImpl ----
    bpc,                \* where buildImpl is
    bopts,              \* the BuildOptions buildImpl was called with
    bcfg,               \* config.Options as buildImpl derives it
    blog,               \* the messages added to the log, in order
    bio,                \* file-system and bundler work done, in order
    bresults,           \* number of files Compile produced
    writers,            \* state of each writer goroutine
    wgCount,            \* the WaitGroup counter
    boutputFiles,       \* the outputFiles local
    bresult,            \* the BuildResult returned, or NIL
    \* ---- internal/bundler: one bundle ----
    lscn,               \* the files of the bundle: which test's import graph
    lpc,                \* where the bundler is
    lpending,           \* files found and not parsed yet
    lscanned,           \* files parsed
    lorder,             \* the files in the order their parse ended
    lwrapped,           \* modules emitted as wrapped module functions
    lnsobjs,            \* modules that get a namespace object
    lids,               \* module id of each file of the bundle
    lout,               \* the chunk printed for each entry point
    \* ---- internal/renamer: the top-level scope of one chunk ----
    rsyms,              \* original names of the chunk's top-level symbols, in the
                        \* order the renamer takes them
    rnames,             \* the names assigned so far
    \* ---- internal/config: AMDOptions ----
    amdJson,            \* the configuration file parseAMDConfig is given, with
                        \* how far it is with it; NIL without one
    amdOptions,         \* BaseUrl, Paths, Map, StarMap, Plugins, KnownFileExtensions
    backwardPaths,      \* options.backwardPaths
    pluginExpressions,  \* options.pluginExpressions
    acalls,             \* the calls resolvers make on the options, each with
                        \* its arguments, its position and what it computed
    \* ---- pkg/api: analyseImpl ----
    apc,                \* where analyseImpl is
    aopts,              \* the AnalyseOptions analyseImpl was called with
    acfg,               \* config.Options as analyseImpl derives it
    alog,               \* the messages added to its log, in order
    ametadata,          \* the metadata local: NIL, or the JSON of bundle.Analyse()
    aresult,            \* the AnalyseResult returned, or NIL
    awriter,            \* where the goroutine writing the metadata file is
    awgCount,           \* the WaitGroup counter of analyseImpl
    \* ---- pkg/api: validateDefines ----
    dpc,                \* where validateDefines is
    ddefines,           \* its defines parameter: value of each key
    dpureFns,           \* its pureFns parameter
    dpending,           \* keys of defines the first loop has not seen yet
    dpureIdx,           \* index of the pure function the second loop sees next
    dlog,               \* the messages it added to the log, in order
    rawDefines,         \* the rawDefines local
    \* ---- internal/config: compileFilter ----
    filterMutex,        \* filterMutex: 0 when free, else the call that holds it
    filterCache,        \* filterCache: NIL, or the map it points to
    fcalls              \* the calls of compileFilter, each with its filter,
                        \* its position, its locals and its cache accesses

argVars == <<rawArgs, osArgs, shouldPrintSummary>>
parseVars == <<pcmd, pargs, pidx, pst>>
optVars == <<buildOptions, transformOptions, analyseOptions, parseErr>>
cliVars == <<argVars, parseVars, optVars, envNodePath, cpc, stdinRead, apiErrors,
             exitCode, summaryPrinted>>
buildVars == <<bpc, bopts, bcfg, blog, bio, bresults, writers, wgCount,
               boutputFiles, bresult>>
linkVars == <<lscn, lpc, lpending, lscanned, lorder, lwrapped, lnsobjs, lids, lout>>
renameVars == <<rsyms, rnames>>
amdVars == <<amdJson, amdOptions, backwardPaths, pluginExpressions, acalls>>
analyseVars == <<apc, aopts, acfg, alog, ametadata, aresult, awriter, awgCount>>
defineVars == <<dpc, ddefines, dpureFns, dpending, dpureIdx, dlog, rawDefines>>
filterVars == <<filterMutex, filterCache, fcalls>>
extVars == <<analyseVars, defineVars, filterVars>>
libVars == <<renameVars, amdVars, extVars>>
vars == <<cliVars, buildVars, linkVars, libVars>>

\* A Go pointer is a sequence: empty for nil, else holding the struct.
NIL == <<>>
Ref(x) == <<x>>

\* ---- bounds -------------------------------------------------------------
MaxArgs == 2
MaxResults == 2
MaxEntryPoints == 2

\* ---- strings ------------------------------------------------------------
\* The flags of the model: what follows the first "-" of the argument, split
\* where the code splits it into a flag prefix and the value after it.
FlagArgs ==
    {<<"-bundle", "">>, <<"-analyse", "">>, <<"-splitting", "">>,
     <<"-watch", "">>, <<"-sourcemap", "">>, <<"-summary", "">>,
     <<"-serve", "">>, <<"-serve=", "x">>,
     <<"-bogus", "">>,
     <<"-charset=", "utf8">>, <<"-sourcemap=", "external">>,
     <<"-sourcemap=", "both">>, <<"-sourcemap=", "linked">>,
     <<"-sourcefile=", "in.js">>, <<"-metafile=", "meta.json">>,
     <<"-outfile=", "out.js">>, <<"-outdir=", "out">>,
     <<"-amdconfig=", "config.json">>, <<"-platform=", "node">>,
     <<"-platform=", "neutral">>, <<"-format=", "umd">>,
     <<"-format=", "esm">>}

\* Arguments that do not start with "-": an entry point, and a flag that the
\* shell passed with its single quotes.
PlainArgs == {"entry.js", "'--bundle'"}

\* The arguments runImpl is called with are sequences over this set.
ArgAlphabet == {"-" \o fv[1] \o fv[2] : fv \in FlagArgs} \cup PlainArgs

\* What can remain of an argument of the model once a prefix is cut off it.
Tails ==
    {fv[2] : fv \in FlagArgs} \cup {fv[1] \o fv[2] : fv \in FlagArgs}
    \cup {"bundle'"}

\* strings.HasPrefix(s, prefix), decided over the strings of the model.
HasPrefix(s, prefix) == \E t \in Tails : s = prefix \o t

\* s[len(prefix):] for a string s that has the prefix.
After(s, prefix) == CHOOSE t \in Tails : s = prefix \o t

\* ---- pkg/cli: the option structs ------------------------------------------
\* newBuildOptions()
newBuildOptions ==
    [Bundle |-> FALSE, Splitting |-> FALSE, Watch |-> FALSE,
     Charset |-> "CharsetDefault", Sourcemap |-> "SourceMapNone",
     Platform |-> "PlatformBrowser", Format |-> "FormatDefault",
     Outfile |-> "", Outdir |-> "", Metafile |-> "", AMDConfig |-> "",
     EntryPoints |-> <<>>, Stdin |-> NIL, NodePaths |-> FALSE,
     ErrorLimit |-> 0, Write |-> FALSE]

\* newTransformOptions()
newTransformOptions ==
    [Charset |-> "CharsetDefault", Sourcemap |-> "SourceMapNone",
     Format |-> "FormatDefault", Sourcefile |-> "", ErrorLimit |-> 0]

\* newAnalyseOptions()
newAnalyseOptions ==
    [Bundle |-> FALSE, Splitting |-> FALSE, Platform |-> "PlatformBrowser",
     Metafile |-> "", AMDConfig |-> "", EntryPoints |-> <<>>, Stdin |-> NIL,
     ErrorLimit |-> 0, Write |-> FALSE]

\* &api.StdinOptions{}
newStdinOptions == [Sourcefile |-> "", Contents |-> "", ResolveDir |-> ""]

\* ---- pkg/cli: parseOptionsImpl ---------------------------------------------
\* The state of one parseOptionsImpl call: the three option pointers it was
\* given, its two locals, the error it returned ("" for none) and whether it
\* dereferenced a nil pointer.
ParseState(b, t, a) ==
    [b |-> b, t |-> t, a |-> a, hasBareSourceMapFlag |-> FALSE,
     analyse |-> FALSE, err |-> "", panic |-> FALSE]

SetB(st, f, v) == [st EXCEPT !.b = Ref([st.b[1] EXCEPT ![f] = v])]
SetT(st, f, v) == [st EXCEPT !.t = Ref([st.t[1] EXCEPT ![f] = v])]
SetA(st, f, v) == [st EXCEPT !.a = Ref([st.a[1] EXCEPT ![f] = v])]
Errorf(st, msg) == [st EXCEPT !.err = msg]
NilDeref(st) == [st EXCEPT !.panic = TRUE]

\* "if buildOpts != nil { buildOpts.f = v } else { transformOpts.f = v }"
SetBElseT(st, f, v) ==
    IF st.b # NIL THEN SetB(st, f, v)
    ELSE IF st.t # NIL THEN SetT(st, f, v) ELSE NilDeref(st)

\* "if buildOpts != nil { buildOpts.f = v } else { analyseOpts.f = v }"
SetBElseA(st, f, v) ==
    IF st.b # NIL THEN SetB(st, f, v)
    ELSE IF st.a # NIL THEN SetA(st, f, v) ELSE NilDeref(st)

\* The "--sourcefile=" case: Stdin is allocated on first use.
SetSourcefile(st, v) ==
    IF st.b # NIL
    THEN LET sin == IF st.b[1].Stdin = NIL THEN newStdinOptions ELSE st.b[1].Stdin[1]
         IN SetB(st, "Stdin", Ref([sin EXCEPT !.Sourcefile = v]))
    ELSE IF st.t # NIL THEN SetT(st, "Sourcefile", v)
    ELSE IF st.a # NIL
    THEN LET sin == IF st.a[1].Stdin = NIL THEN newStdinOptions ELSE st.a[1].Stdin[1]
         IN SetA(st, "Stdin", Ref([sin EXCEPT !.Sourcefile = v]))
    ELSE NilDeref(st)

\* The "--charset=" case: the address of the field is taken before the value
\* is looked at.
SetCharset(st, name) ==
    IF st.b = NIL /\ st.t = NIL THEN NilDeref(st)
    ELSE IF name = "ascii" THEN SetBElseT(st, "Charset", "CharsetASCII")
    ELSE IF name = "utf8" THEN SetBElseT(st, "Charset", "CharsetUTF8")
    ELSE Errorf(st, "Invalid charset value")

\* A "--sourcemap=" case that leaves hasBareSourceMapFlag as it is.
SetSourcemapKeepingBare(st, value) ==
    LET sourcemap == IF value = "inline" THEN "SourceMapInline"
                     ELSE IF value = "external" THEN "SourceMapExternal"
                     ELSE IF value = "both" THEN "SourceMapInlineAndExternal"
                     ELSE ""
    IN IF sourcemap = "" THEN Errorf(st, "Invalid sourcemap")
       ELSE SetBElseT(st, "Sourcemap", sourcemap)

\* The "--sourcemap=" case: the value is checked first, then stored.
SetSourcemap(st, value) ==
    LET sourcemap == IF value = "inline" THEN "SourceMapInline"
                     ELSE IF value = "external" THEN "SourceMapExternal"
                     ELSE IF value = "both" THEN "SourceMapInlineAndExternal"
                     ELSE ""
    IN IF sourcemap = "" THEN Errorf(st, "Invalid sourcemap")
       ELSE LET st2 == SetBElseT(st, "Sourcemap", sourcemap)
            IN [st2 EXCEPT !.hasBareSourceMapFlag = FALSE]

\* The "--platform=" case.
SetPlatform(st, value) ==
    IF value = "browser" THEN SetBElseA(st, "Platform", "PlatformBrowser")
    ELSE IF value = "node" THEN SetBElseA(st, "Platform", "PlatformNode")
    ELSE IF value = "neutral" THEN SetBElseA(st, "Platform", "PlatformNeutral")
    ELSE Errorf(st, "Invalid platform")

\* The "--format=" case.
SetFormat(st, value) ==
    IF value = "iife" THEN SetBElseT(st, "Format", "FormatIIFE")
    ELSE IF value = "cjs" THEN SetBElseT(st, "Format", "FormatCommonJS")
    ELSE IF value = "umd" THEN SetBElseT(st, "Format", "FormatUMD")
    ELSE IF value = "esm" THEN SetBElseT(st, "Format", "FormatESModule")
    ELSE Errorf(st, "Invalid format")

\* One iteration of the loop of parseOptionsImpl: the switch, its cases in the
\* order of the source (the first case that matches is taken).  The flags the
\* model's arguments never use are left out.
ParseArg(st, arg) ==
    IF arg = "--bundle" /\ st.b # NIL THEN SetB(st, "Bundle", TRUE)
    ELSE IF arg = "--analyse" /\ st.a # NIL
    THEN [SetA(st, "Bundle", TRUE) EXCEPT !.analyse = TRUE]
    ELSE IF arg = "--splitting" THEN SetBElseA(st, "Splitting", TRUE)
    ELSE IF arg = "--watch" /\ st.b # NIL THEN SetB(st, "Watch", TRUE)
    ELSE IF HasPrefix(arg, "--charset=") THEN SetCharset(st, After(arg, "--charset="))
    ELSE IF arg = "--sourcemap"
    THEN LET st2 == IF st.b # NIL THEN SetB(st, "Sourcemap", "SourceMapLinked")
                    ELSE IF st.t # NIL THEN SetT(st, "Sourcemap", "SourceMapInline")
                    ELSE st
         IN [st2 EXCEPT !.hasBareSourceMapFlag = TRUE]
    ELSE IF HasPrefix(arg, "--sourcemap=") THEN SetSourcemap(st, After(arg, "--sourcemap="))
    ELSE IF HasPrefix(arg, "--sourcefile=") THEN SetSourcefile(st, After(arg, "--sourcefile="))
    ELSE IF HasPrefix(arg, "--metafile=")
    THEN SetBElseA(st, "Metafile", After(arg, "--metafile="))
    ELSE IF HasPrefix(arg, "--outfile=") /\ st.b # NIL
    THEN SetB(st, "Outfile", After(arg, "--outfile="))
    ELSE IF HasPrefix(arg, "--outdir=") /\ st.b # NIL
    THEN SetB(st, "Outdir", After(arg, "--outdir="))
    ELSE IF HasPrefix(arg, "--amdconfig=")
    THEN SetBElseA(st, "AMDConfig", After(arg, "--amdconfig="))
    ELSE IF HasPrefix(arg, "--platform=") THEN SetPlatform(st, After(arg, "--platform="))
    ELSE IF HasPrefix(arg, "--format=") THEN SetFormat(st, After(arg, "--format="))
    ELSE IF HasPrefix(arg, "'--")
    THEN Errorf(st, "Unexpected single quote character before flag")
    ELSE IF ~HasPrefix(arg, "-")
    THEN IF st.b # NIL
         THEN SetB(st, "EntryPoints", Append(st.b[1].EntryPoints, arg))
         ELSE IF st.a # NIL
         THEN SetA(st, "EntryPoints", Append(st.a[1].EntryPoints, arg))
         ELSE NilDeref(st)
    ELSE IF st.b # NIL THEN Errorf(st, "Invalid build flag")
    ELSE IF st.t # NIL THEN Errorf(st, "Invalid transform flag")
    ELSE Errorf(st, "Invalid analyse flag")

\* parseOptionsImpl behind its loop: the bare "--sourcemap" becomes inline
\* without an output path, and analysing needs "--analyse".
parseOptionsImplEnd(st) ==
    IF st.err # "" \/ st.panic THEN st
    ELSE LET inl == IF st.b # NIL /\ st.hasBareSourceMapFlag
                       /\ st.b[1].Outfile = "" /\ st.b[1].Outdir = ""
                    THEN SetB(st, "Sourcemap", "SourceMapInline")
                    ELSE st
         IN IF inl.a # NIL /\ ~inl.analyse THEN Errorf(inl, "Missing --analyse flag")
            ELSE inl

\* ---- pkg/cli: parseOptionsForRun --------------------------------------------
\* The loop of parseOptionsForRun from argument i on: the first argument that
\* decides picks the command, and without one it is "transform".
RECURSIVE SelectCommand(_, _)
SelectCommand(args, i) ==
    IF i > Len(args) THEN "transform"
    ELSE IF ~HasPrefix(args[i], "-") \/ args[i] = "--bundle" THEN "build"
    ELSE IF ~HasPrefix(args[i], "-") \/ args[i] = "--analyse" THEN "analyse"
    ELSE SelectCommand(args, i + 1)

\* The pointers parseOptionsForRun hands to parseOptionsImpl for a command.
OptionsFor(cmd) ==
    IF cmd = "build"
    THEN ParseState(Ref([newBuildOptions EXCEPT !.ErrorLimit = 10, !.Write = TRUE]),
                    NIL, NIL)
    ELSE IF cmd = "analyse"
    THEN ParseState(NIL, NIL,
                    Ref([newAnalyseOptions EXCEPT !.ErrorLimit = 10, !.Write = TRUE]))
    ELSE ParseState(NIL, Ref([newTransformOptions EXCEPT !.ErrorLimit = 10]), NIL)

\* What parseOptionsForRun hands back: the three pointers and the error,
\* or a nil dereference on the way.
RunOptions(b, t, a, err, panic) ==
    [b |-> b, t |-> t, a |-> a, err |-> err, panic |-> panic]

\* The return statements of parseOptionsForRun for the outcome st of its
\* parseOptionsImpl call.
Returned(st) ==
    IF st.panic THEN RunOptions(NIL, NIL, NIL, "", TRUE)
    ELSE IF st.err # "" THEN RunOptions(NIL, NIL, NIL, st.err, FALSE)
    ELSE IF st.t # NIL /\ st.t[1].Sourcemap # "SourceMapNone"
            /\ st.t[1].Sourcemap # "SourceMapInline"
    THEN RunOptions(NIL, NIL, NIL, "Must use inline source map when transforming stdin", FALSE)
    ELSE RunOptions(st.b, st.t, st.a, "", FALSE)

\* ---- pkg/cli: runImpl ----------------------------------------------------------
IsServeFlag(arg) ==
    arg = "--serve" \/ HasPrefix(arg, "--serve=") \/ HasPrefix(arg, "--servedir=")

\* The first loop of runImpl from argument i on: arr is the argument array,
\* compacted in place up to index end.  It stops at the first serve flag and
\* hands the array over as it is at that moment.
RECURSIVE FilterLoop(_, _, _, _)
FilterLoop(arr, i, end, summary) ==
    IF i > Len(arr)
    THEN [serve |-> FALSE, args |-> SubSeq(arr, 1, end), summary |-> summary]
    ELSE IF IsServeFlag(arr[i])
    THEN [serve |-> TRUE, args |-> arr, summary |-> summary]
    ELSE IF arr[i] = "--summary" THEN FilterLoop(arr, i + 1, end, TRUE)
    ELSE FilterLoop([arr EXCEPT ![end + 1] = arr[i]], i + 1, end + 1, summary)

\* filteredArgs of serveImpl
RECURSIVE ServeFilter(_)
ServeFilter(args) ==
    IF args = <<>> THEN <<>>
    ELSE IF IsServeFlag(Head(args)) THEN ServeFilter(Tail(args))
    ELSE <<Head(args)>> \o ServeFilter(Tail(args))

\* runImpl returns code.
Return(code) ==
    /\ cpc' = "returned"
    /\ exitCode' = code

\* runImpl, lines 658-677: filter "--summary" out, or hand over to serveImpl.
RunFilter ==
    /\ cpc = "start"
    /\ LET f == FilterLoop(rawArgs, 1, 0, FALSE)
       IN /\ osArgs' = f.args
          /\ shouldPrintSummary' = f.summary
          /\ cpc' = IF f.serve THEN "serve" ELSE "select"
    /\ UNCHANGED <<rawArgs, parseVars, optVars, envNodePath, stdinRead, apiErrors,
                   exitCode, summaryPrinted>>
    /\ UNCHANGED <<buildVars, linkVars, libVars>>

\* portText of serveImpl: "0", or what follows the last "--serve=".
RECURSIVE PortText(_, _)
PortText(args, portText) ==
    IF args = <<>> THEN portText
    ELSE PortText(Tail(args),
                  IF HasPrefix(Head(args), "--serve=") THEN After(Head(args), "--serve=")
                  ELSE portText)

\* The error of strconv.ParseInt(portText, 10, 32) over the ports of the
\* model, "0" and "x", "" for none; no port of the model has a host or is
\* out of range.
PortError(portText) ==
    IF portText = "0" THEN "" ELSE "invalid syntax"

\* serveImpl up to its parseOptionsImpl call: the serve flags are filtered
\* out and the port is parsed, which may end serveImpl with an error and
\* runImpl with 1; the rest is parsed as build options with the defaults of
\* the server, an ErrorLimit of 5 and no Write.
RunServe ==
    /\ cpc = "serve"
    /\ pcmd' = "serve"
    /\ pargs' = ServeFilter(osArgs)
    /\ LET err == PortError(PortText(osArgs, "0"))
       IN IF err # ""
          THEN /\ parseErr' = err
               /\ Return(1)
               /\ UNCHANGED <<pidx, pst>>
          ELSE /\ pidx' = 1
               /\ pst' = ParseState(Ref([newBuildOptions EXCEPT !.ErrorLimit = 5]),
                                     NIL, NIL)
               /\ cpc' = "parsing"
               /\ UNCHANGED <<parseErr, exitCode>>
    /\ UNCHANGED <<argVars, buildOptions, transformOptions, analyseOptions,
                   envNodePath, stdinRead, apiErrors, summaryPrinted>>
    /\ UNCHANGED <<buildVars, linkVars, libVars>>

\* parseOptionsForRun up to its parseOptionsImpl call: the command is picked
\* and its options are allocated.
RunSelect ==
    /\ cpc = "select"
    /\ LET cmd == SelectCommand(osArgs, 1)
       IN /\ pcmd' = cmd
          /\ pst' = OptionsFor(cmd)
    /\ pargs' = osArgs
    /\ pidx' = 1
    /\ cpc' = "parsing"
    /\ UNCHANGED <<argVars, optVars, envNodePath, stdinRead, apiErrors, exitCode,
                   summaryPrinted>>
    /\ UNCHANGED <<buildVars, linkVars, libVars>>

\* TRUE while the loop of parseOptionsImpl has an argument to look at: it
\* ends with the arguments, with the first error and with a nil dereference.
ParseLoopRuns ==
    pidx <= Len(pargs) /\ pst.err = "" /\ ~pst.panic

\* One iteration of the loop of parseOptionsImpl.
ParseStep ==
    /\ cpc = "parsing"
    /\ ParseLoopRuns
    /\ pst' = ParseArg(pst, pargs[pidx])
    /\ pidx' = pidx + 1
    /\ UNCHANGED <<argVars, pcmd, pargs, optVars, envNodePath, cpc, stdinRead,
                   apiErrors, exitCode, summaryPrinted>>
    /\ UNCHANGED <<buildVars, linkVars, libVars>>

\* serveImpl from the return of parseOptionsImpl on, and runImpl lines
\* 661-665: an error of the flags, of api.Serve or of result.Wait() gives 1.
ServeReturn ==
    /\ cpc = "parsing"
    /\ ~ParseLoopRuns
    /\ pcmd = "serve"
    /\ LET st == parseOptionsImplEnd(pst)
       IN /\ parseErr' = st.err
          /\ IF st.err # "" THEN Return(1)
             ELSE \E served \in BOOLEAN : Return(IF served THEN 0 ELSE 1)
    /\ UNCHANGED <<argVars, parseVars, buildOptions, transformOptions,
                   analyseOptions, envNodePath, stdinRead, apiErrors, summaryPrinted>>
    /\ UNCHANGED <<buildVars, linkVars, libVars>>

\* The end of parseOptionsImpl, the return of parseOptionsForRun, and the
\* switch of runImpl at line 681: with no options and an error the last case
\* returns 1.
RunParse ==
    /\ cpc = "parsing"
    /\ ~ParseLoopRuns
    /\ pcmd # "serve"
    /\ LET r == Returned(parseOptionsImplEnd(pst))
       IN /\ buildOptions' = r.b
          /\ transformOptions' = r.t
          /\ analyseOptions' = r.a
          /\ parseErr' = r.err
          /\ IF r.panic THEN cpc' = "panic" /\ exitCode' = exitCode
             ELSE IF r.b # NIL THEN cpc' = "build_env" /\ exitCode' = exitCode
             ELSE IF r.t # NIL THEN cpc' = "transform_stdin" /\ exitCode' = exitCode
             ELSE IF r.a # NIL THEN cpc' = "analyse_env" /\ exitCode' = exitCode
             ELSE IF r.err # "" THEN Return(1)
             ELSE Return(0)
    /\ UNCHANGED <<argVars, parseVars, envNodePath, stdinRead, apiErrors,
                   summaryPrinted>>
    /\ UNCHANGED <<buildVars, linkVars, libVars>>

\* runImpl, lines 686-697: NODE_PATH goes into buildOptions.NodePaths.
BuildEnv ==
    /\ cpc = "build_env"
    /\ \E np \in {"set", "unset"} :
          /\ envNodePath' = np
          /\ buildOptions' = IF np = "set"
                             THEN Ref([buildOptions[1] EXCEPT !.NodePaths = TRUE])
                             ELSE buildOptions
    /\ cpc' = "build_stdin"
    /\ UNCHANGED <<argVars, parseVars, transformOptions,
                   analyseOptions, parseErr, stdinRead, apiErrors, exitCode,
                   summaryPrinted>>
    /\ UNCHANGED <<buildVars, linkVars, libVars>>

\* What lines 700-721 (and 782-803) do with the options o of the command:
\* "read" stdin when there is no entry point, "misuse" when stdin options
\* were given beside entry points, else "none".
StdinCase(o) ==
    IF Len(o.EntryPoints) = 0 THEN "read"
    ELSE IF o.Stdin # NIL THEN "misuse" ELSE "none"

\* The options once stdin was read into them.
WithStdin(o) ==
    LET sin == IF o.Stdin = NIL THEN newStdinOptions ELSE o.Stdin[1]
    IN [o EXCEPT !.Stdin = Ref([sin EXCEPT !.Contents = "stdin", !.ResolveDir = "cwd"])]

\* runImpl, lines 700-721.
BuildStdin ==
    /\ cpc = "build_stdin"
    /\ LET c == StdinCase(buildOptions[1])
       IN \/ /\ c = "read"
             /\ \E ok \in BOOLEAN :
                   IF ok
                   THEN /\ buildOptions' = Ref(WithStdin(buildOptions[1]))
                        /\ stdinRead' = "ok"
                        /\ cpc' = "build_call"
                        /\ exitCode' = exitCode
                   ELSE /\ buildOptions' = Ref([buildOptions[1] EXCEPT !.Stdin =
                               IF @ = NIL THEN Ref(newStdinOptions) ELSE @])
                        /\ stdinRead' = "failed"
                        /\ Return(1)
          \/ /\ c = "misuse"
             /\ Return(1)
             /\ UNCHANGED <<buildOptions, stdinRead>>
          \/ /\ c = "none"
             /\ cpc' = "build_call"
             /\ UNCHANGED <<buildOptions, stdinRead, exitCode>>
    /\ UNCHANGED <<argVars, parseVars, envNodePath, transformOptions,
                   analyseOptions, parseErr, apiErrors, summaryPrinted>>
    /\ UNCHANGED <<buildVars, linkVars, libVars>>

\* ---- pkg/api: the validators ----------------------------------------------------
PANIC == "panic"

\* validatePlatform
validatePlatform(value) ==
    IF value = "PlatformBrowser" THEN "config.PlatformBrowser"
    ELSE IF value = "PlatformNode" THEN "config.PlatformNode"
    ELSE PANIC

\* validateFormat
validateFormat(value) ==
    IF value = "FormatDefault" THEN "config.FormatPreserve"
    ELSE IF value = "FormatIIFE" THEN "config.FormatIIFE"
    ELSE IF value = "FormatCommonJS" THEN "config.FormatCommonJS"
    ELSE IF value = "FormatESModule" THEN "config.FormatESModule"
    ELSE PANIC

\* validateSourceMap
validateSourceMap(value) ==
    IF value = "SourceMapNone" THEN "config.SourceMapNone"
    ELSE IF value = "SourceMapLinked" THEN "config.SourceMapLinkedWithComment"
    ELSE IF value = "SourceMapInline" THEN "config.SourceMapInline"
    ELSE IF value = "SourceMapExternal" THEN "config.SourceMapExternalWithoutComment"
    ELSE PANIC

\* ---- the log (internal/logger) --------------------------------------------------
Msg(kind, text) == [Kind |-> kind, Text |-> text]

\* log.AddError
AddError(log, text) == Append(log, Msg("error", text))

\* log.HasErrors
HasErrors(log) == \E i \in 1..Len(log) : log[i].Kind = "error"

\* convertMessagesToPublic(kind, msgs)
RECURSIVE convertMessagesToPublic(_, _)
convertMessagesToPublic(kind, msgs) ==
    IF msgs = <<>> THEN <<>>
    ELSE (IF Head(msgs).Kind = kind THEN <<Head(msgs).Text>> ELSE <<>>)
         \o convertMessagesToPublic(kind, Tail(msgs))

\* One piece of file-system or bundler work, with the number of messages the
\* log held when it started.
Work(op, log) == [op |-> op, logged |-> Len(log)]

\* validatePath: "" stays ""; any other path goes through fs.Abs, which gives
\* the absolute path or, failing (ok is FALSE), no path, and then the error is
\* logged.  The path and the log come back.
validatePath(log, relPath, ok) ==
    IF relPath = "" THEN [path |-> "", log |-> log]
    ELSE IF ok THEN [path |-> "/cwd/" \o relPath, log |-> log]
    ELSE [path |-> "", log |-> AddError(log, "Invalid path: " \o relPath)]

\* realFS.Dir of the absolute output and metadata files of the model.
Dir(absPath) ==
    IF absPath \in {"/cwd/out.js", "/cwd/meta.json"} THEN "/cwd" ELSE absPath

\* ---- pkg/api: buildImpl, option validation (lines 454-584) -----------------------
\* TRUE when one of the validators called for the config.Options literal panics.
ValidatorPanics(o) ==
    \/ validatePlatform(o.Platform) = PANIC
    \/ validateSourceMap(o.Sourcemap) = PANIC
    \/ validateFormat(o.Format) = PANIC

\* What the calls of fs.Abs of one call of buildImpl or analyseImpl give:
\* TRUE for a path that is made absolute, for each path option and for each
\* entry point.
AbsOutcomes ==
    [Outfile : BOOLEAN, Outdir : BOOLEAN, Metafile : BOOLEAN, AMDConfig : BOOLEAN,
     EntryPoints : [1..(IF MaxArgs > MaxEntryPoints THEN MaxArgs ELSE MaxEntryPoints)
                        -> BOOLEAN]]

\* Lines 503-506: validatePath over the entry points from the i-th on.
RECURSIVE ValidateEntryPaths(_, _, _, _)
ValidateEntryPaths(log, entryPoints, abs, i) ==
    IF i > Len(entryPoints) THEN log
    ELSE ValidateEntryPaths(validatePath(log, entryPoints[i], abs.EntryPoints[i]).log,
                            entryPoints, abs, i + 1)

\* The config.Options literal of lines 464-496 and the entry paths of
\* 503-506, with the log the calls of validatePath leave, in their order.
OptionsLiteral(o, abs) ==
    LET outfile == validatePath(<<>>, o.Outfile, abs.Outfile)
        outdir == validatePath(outfile.log, o.Outdir, abs.Outdir)
        metafile == validatePath(outdir.log, o.Metafile, abs.Metafile)
        amd == validatePath(metafile.log, o.AMDConfig, abs.AMDConfig)
    IN [cfg |-> [Platform |-> validatePlatform(o.Platform),
                 SourceMap |-> validateSourceMap(o.Sourcemap),
                 CodeSplitting |-> o.Splitting,
                 OutputFormat |-> validateFormat(o.Format),
                 AbsOutputFile |-> outfile.path,
                 AbsOutputDir |-> outdir.path,
                 AbsMetadataFile |-> metafile.path,
                 AMDConfig |-> amd.path,
                 WriteToStdout |-> FALSE,
                 Mode |-> "config.ModePassThrough"],
        log |-> ValidateEntryPaths(amd.log, o.EntryPoints, abs, 1)]

\* entryPathCount of lines 507-510.
EntryPathCount(o) == Len(o.EntryPoints) + (IF o.Stdin # NIL THEN 1 ELSE 0)

\* The messages of the stdout branch, lines 533-538.
StdoutErrors(cfg, log) ==
    LET l1 == IF cfg.SourceMap # "config.SourceMapNone"
                 /\ cfg.SourceMap # "config.SourceMapInline"
              THEN AddError(log, "Cannot use an external source map without an output path")
              ELSE log
    IN IF cfg.AbsMetadataFile # ""
       THEN AddError(l1, "Cannot use \"metafile\" without an output path")
       ELSE l1

\* The if/else chain of lines 518-549 on the output paths.
OutputPaths(cfg, count, log) ==
    IF cfg.AbsOutputDir = "" /\ count > 1
    THEN [cfg |-> cfg,
          log |-> AddError(log, "Must use \"outdir\" when there are multiple input files")]
    ELSE IF cfg.AbsOutputDir = "" /\ cfg.CodeSplitting
    THEN [cfg |-> cfg,
          log |-> AddError(log, "Must use \"outdir\" when code splitting is enabled")]
    ELSE IF cfg.AbsOutputFile # "" /\ cfg.AbsOutputDir # ""
    THEN [cfg |-> cfg,
          log |-> AddError(log, "Cannot use both \"outfile\" and \"outdir\"")]
    ELSE IF cfg.AbsOutputFile # ""
    THEN [cfg |-> [cfg EXCEPT !.AbsOutputDir = Dir(cfg.AbsOutputFile)], log |-> log]
    ELSE IF cfg.AbsOutputDir = ""
    THEN [cfg |-> [cfg EXCEPT !.WriteToStdout = TRUE, !.AbsOutputDir = "/cwd"],
          log |-> StdoutErrors(cfg, log)]
    ELSE [cfg |-> cfg, log |-> log]

\* Lines 551-555: with an AMD config path, parseAMDConfig reads and parses the
\* file (parsed says whether that went well) and the format becomes FormatJoin.
AMDStep(s, parsed) ==
    IF s.cfg.AMDConfig # ""
    THEN [cfg |-> [s.cfg EXCEPT !.OutputFormat = "config.FormatJoin"],
          log |-> IF parsed THEN s.log ELSE AddError(s.log, "amdconfig: cannot read or parse"),
          io |-> <<Work("ReadFile", s.log)>>]
    ELSE [cfg |-> s.cfg, log |-> s.log, io |-> <<>>]

\* Lines 557-577: the default format when bundling, and the mode.
FormatAndMode(cfg, bundle) ==
    LET fmt == IF bundle /\ cfg.OutputFormat = "config.FormatPreserve"
               THEN IF cfg.Platform = "config.PlatformBrowser" THEN "config.FormatIIFE"
                    ELSE "config.FormatCommonJS"
               ELSE cfg.OutputFormat
        mode == IF bundle THEN "config.ModeBundle"
                ELSE IF fmt # "config.FormatPreserve" THEN "config.ModeConvertFormat"
                ELSE cfg.Mode
    IN [cfg EXCEPT !.OutputFormat = fmt, !.Mode = mode]

\* Lines 580-582.
SplittingCheck(cfg, log) ==
    IF cfg.CodeSplitting /\ cfg.OutputFormat # "config.FormatESModule"
    THEN AddError(log, "Splitting currently only works with the \"esm\" format")
    ELSE log

\* All of the option validation of buildImpl for options that pass the
\* validators: the config, the log and the file work it leaves behind.
Validated(o, amdParsed, abs) ==
    LET s0 == OptionsLiteral(o, abs)
        s1 == OutputPaths(s0.cfg, EntryPathCount(o), s0.log)
        s2 == AMDStep(s1, amdParsed)
        cfg == FormatAndMode(s2.cfg, o.Bundle)
    IN [cfg |-> cfg, log |-> SplittingCheck(cfg, s2.log), io |-> s2.io]

\* ---- pkg/api: analyseImpl, option validation (lines 1050-1133) -------------------
\* The config.Options literal of analyseImpl, lines 1050-1068, and the entry
\* paths of 1069-1072: it has no format, source map or output file, so these
\* keep their zero values.
AnalyseLiteral(o, abs) ==
    LET metafile == validatePath(<<>>, o.Metafile, abs.Metafile)
        amd == validatePath(metafile.log, o.AMDConfig, abs.AMDConfig)
    IN [cfg |-> [Platform |-> validatePlatform(o.Platform),
                 SourceMap |-> "config.SourceMapNone",
                 CodeSplitting |-> o.Splitting,
                 OutputFormat |-> "config.FormatPreserve",
                 AbsOutputFile |-> "",
                 AbsOutputDir |-> "",
                 AbsMetadataFile |-> metafile.path,
                 AMDConfig |-> amd.path,
                 WriteToStdout |-> FALSE,
                 Mode |-> "config.ModePassThrough"],
        log |-> ValidateEntryPaths(amd.log, o.EntryPoints, abs, 1)]

\* Lines 1084-1102: the metadata file gives the output directory, and
\* without one the metadata goes to stdout.
MetadataPath(cfg) ==
    IF cfg.AbsMetadataFile # ""
    THEN [cfg EXCEPT !.AbsOutputDir = Dir(cfg.AbsMetadataFile)]
    ELSE [cfg EXCEPT !.AbsMetadataFile = "<stdin>", !.WriteToStdout = TRUE,
                     !.AbsOutputDir = "/cwd"]

\* All of the option validation of analyseImpl, lines 1050-1133, for options
\* that pass validatePlatform: the config and the log it leaves behind.
AnalyseValidated(o, amdParsed, abs) ==
    LET s0 == AnalyseLiteral(o, abs)
        s2 == AMDStep([cfg |-> MetadataPath(s0.cfg), log |-> s0.log], amdParsed)
        cfg == FormatAndMode(s2.cfg, o.Bundle)
    IN [cfg |-> cfg, log |-> SplittingCheck(cfg, s2.log)]

\* ---- pkg/api: buildImpl, the pipeline ---------------------------------------------
\* What ScanBundle and Compile may add to the log.
StageOutcomes == {"clean", "warning", "error"}

Logged(log, stage, outcome) ==
    IF outcome = "clean" THEN log
    ELSE Append(log, Msg(outcome, stage \o " " \o outcome))

\* A buildImpl that scans whatever the validation logged.
ScanUnchecked(log) == "scan"

\* Line 589: "if !log.HasErrors()" before ScanBundle.
AfterValidate(log) == IF HasErrors(log) THEN "collect" ELSE "scan"

\* A buildImpl that compiles whatever the scan logged.
CompileUnchecked(log) == "compile"

\* Line 595: "if !log.HasErrors()" before Compile.
AfterScan(log) == IF HasErrors(log) THEN "collect" ELSE "compile"

\* A buildImpl that hands over the files whatever Compile logged.
FilesUnchecked(log, write) == IF write THEN "write" ELSE "files"

\* Lines 600-601: "if !log.HasErrors()" and "if buildOpts.Write" before the
\* files are written.
AfterCompile(log, write) ==
    IF HasErrors(log) THEN "collect" ELSE IF write THEN "write" ELSE "files"

\* Lines 454-589: the options are validated; a validator may panic; with an
\* error in the log the pipeline stops before ScanBundle.
BuildValidate ==
    /\ bpc = "validate"
    /\ IF ValidatorPanics(bopts[1])
       THEN /\ bpc' = PANIC
            /\ UNCHANGED <<bcfg, blog, bio>>
       ELSE \E amdParsed \in BOOLEAN, abs \in AbsOutcomes :
               LET v == Validated(bopts[1], amdParsed, abs)
               IN /\ bcfg' = Ref(v.cfg)
                  /\ blog' = v.log
                  /\ bio' = v.io
                  /\ bpc' = AfterValidate(v.log)
    /\ UNCHANGED <<bopts, bresults, writers, wgCount, boutputFiles, bresult>>
    /\ UNCHANGED <<cliVars, linkVars, libVars>>

\* Lines 591-595: ScanBundle runs; with an error in the log the pipeline stops.
BuildScan ==
    /\ bpc = "scan"
    /\ \E outcome \in StageOutcomes :
          LET log == Logged(blog, "scan", outcome)
          IN /\ blog' = log
             /\ bpc' = AfterScan(log)
    /\ bio' = Append(bio, Work("ScanBundle", blog))
    /\ UNCHANGED <<bopts, bcfg, bresults, writers, wgCount, boutputFiles, bresult>>
    /\ UNCHANGED <<cliVars, linkVars, libVars>>

\* Lines 597-601: Compile runs and yields the files, which may be none; with
\* an error in the log the pipeline stops, and without "write" nothing is
\* written.
BuildCompile ==
    /\ bpc = "compile"
    /\ \E outcome \in StageOutcomes, n \in 0..MaxResults :
          LET log == Logged(blog, "compile", outcome)
          IN /\ blog' = log
             /\ bresults' = n
             /\ bpc' = AfterCompile(log, bopts[1].Write)
    /\ bio' = Append(bio, Work("Compile", blog))
    /\ UNCHANGED <<bopts, bcfg, writers, wgCount, boutputFiles, bresult>>
    /\ UNCHANGED <<cliVars, linkVars, libVars>>

\* Lines 603-610: the single file goes to stdout.
BuildWriteStdout ==
    /\ bpc = "write"
    /\ bcfg[1].WriteToStdout
    /\ IF bresults # 1
       THEN /\ blog' = AddError(blog, "Internal error: did not expect to generate "
                                       \o ToString(bresults)
                                       \o " files when writing to stdout")
            /\ bio' = bio
       ELSE /\ \E ok \in BOOLEAN :
                  blog' = IF ok THEN blog ELSE AddError(blog, "Failed to write to stdout")
            /\ bio' = Append(bio, Work("Stdout.Write", blog))
    /\ bpc' = "files"
    /\ UNCHANGED <<bopts, bcfg, bresults, writers, wgCount, boutputFiles, bresult>>
    /\ UNCHANGED <<cliVars, linkVars, libVars>>

\* Lines 613-634: one goroutine is started per result.
BuildStartWriters ==
    /\ bpc = "write"
    /\ ~bcfg[1].WriteToStdout
    /\ wgCount' = bresults
    /\ writers' = [i \in 1..bresults |-> "started"]
    /\ bpc' = "wait"
    /\ UNCHANGED <<bopts, bcfg, blog, bio, bresults, boutputFiles, bresult>>
    /\ UNCHANGED <<cliVars, linkVars, libVars>>

\* Lines 617-619: writer i makes the directory of its file, which may fail.
WriterMkdir(i) ==
    /\ bpc = "wait"
    /\ writers[i] = "started"
    /\ \E ok \in BOOLEAN :
          writers' = [writers EXCEPT ![i] = IF ok THEN "made" ELSE "mkdir failed"]
    /\ bio' = Append(bio, Work("MkdirAll", blog))
    /\ UNCHANGED <<bpc, bopts, bcfg, blog, bresults, wgCount, boutputFiles, bresult>>
    /\ UNCHANGED <<cliVars, linkVars, libVars>>

\* Lines 622-627: writer i writes its file, which may fail.
WriterWrite(i) ==
    /\ bpc = "wait"
    /\ writers[i] = "made"
    /\ \E ok \in BOOLEAN :
          writers' = [writers EXCEPT ![i] = IF ok THEN "written" ELSE "write failed"]
    /\ bio' = Append(bio, Work("WriteFile", blog))
    /\ UNCHANGED <<bpc, bopts, bcfg, blog, bresults, wgCount, boutputFiles, bresult>>
    /\ UNCHANGED <<cliVars, linkVars, libVars>>

\* Lines 620-621 and 628-629: writer i logs the error of MkdirAll or of
\* WriteFile.
WriterError(i) ==
    /\ bpc = "wait"
    /\ writers[i] \in {"mkdir failed", "write failed"}
    /\ blog' = AddError(blog, IF writers[i] = "mkdir failed"
                              THEN "Failed to create output directory"
                              ELSE "Failed to write to output file")
    /\ writers' = [writers EXCEPT ![i] = "logged"]
    /\ UNCHANGED <<bpc, bopts, bcfg, bio, bresults, wgCount, boutputFiles, bresult>>
    /\ UNCHANGED <<cliVars, linkVars, libVars>>

\* A writer that calls Done behind a file it has written, and returns without
\* it behind an error it has logged.
WriterDoneUnlessFailed(i) ==
    /\ bpc = "wait"
    /\ writers[i] \in {"written", "logged"}
    /\ writers' = [writers EXCEPT ![i] = "done"]
    /\ wgCount' = IF writers[i] = "written" THEN wgCount - 1 ELSE wgCount
    /\ UNCHANGED <<bpc, bopts, bcfg, blog, bio, bresults, boutputFiles, bresult>>
    /\ UNCHANGED <<cliVars, linkVars, libVars>>

\* Line 632: writer i, with its file written or its error logged, calls
\* waitGroup.Done() and ends.
WriterDone(i) ==
    /\ bpc = "wait"
    /\ writers[i] \in {"written", "logged"}
    /\ writers' = [writers EXCEPT ![i] = "done"]
    /\ wgCount' = wgCount - 1
    /\ UNCHANGED <<bpc, bopts, bcfg, blog, bio, bresults, boutputFiles, bresult>>
    /\ UNCHANGED <<cliVars, linkVars, libVars>>

\* Line 635: waitGroup.Wait() returns once the counter is zero.
BuildWait ==
    /\ bpc = "wait"
    /\ wgCount = 0
    /\ bpc' = "files"
    /\ UNCHANGED <<bopts, bcfg, blog, bio, bresults, writers, wgCount, boutputFiles,
                   bresult>>
    /\ UNCHANGED <<cliVars, linkVars, libVars>>

\* The path of output file i as lines 640-649 return it.
OutputPath(i, toStdout) ==
    IF toStdout THEN "<stdout>" ELSE IF i = 1 THEN "/cwd/out.js" ELSE "/cwd/out.js.map"

\* Lines 640-649: the results become the output files.
BuildFiles ==
    /\ bpc = "files"
    /\ boutputFiles' = [i \in 1..bresults |-> OutputPath(i, bcfg[1].WriteToStdout)]
    /\ bpc' = "collect"
    /\ UNCHANGED <<bopts, bcfg, blog, bio, bresults, writers, wgCount, bresult>>
    /\ UNCHANGED <<cliVars, linkVars, libVars>>

\* Lines 654-659: log.Done() and the BuildResult.
BuildReturn ==
    /\ bpc = "collect"
    /\ bresult' = Ref([Errors |-> convertMessagesToPublic("error", blog),
                       Warnings |-> convertMessagesToPublic("warning", blog),
                       OutputFiles |-> boutputFiles])
    /\ bpc' = "done"
    /\ UNCHANGED <<bopts, bcfg, blog, bio, bresults, writers, wgCount, boutputFiles>>
    /\ UNCHANGED <<cliVars, linkVars, libVars>>

BuildStep ==
    \/ BuildValidate
    \/ BuildScan
    \/ BuildCompile
    \/ BuildWriteStdout
    \/ BuildStartWriters
    \/ \E i \in 1..MaxResults : i \in DOMAIN writers /\ WriterMkdir(i)
    \/ \E i \in 1..MaxResults : i \in DOMAIN writers /\ WriterWrite(i)
    \/ \E i \in 1..MaxResults : i \in DOMAIN writers /\ WriterError(i)
    \/ \E i \in 1..MaxResults : i \in DOMAIN writers /\ WriterDone(i)
    \/ BuildWait
    \/ BuildFiles
    \/ BuildReturn

\* buildImpl has not been called.
BuildIdle ==
    /\ bpc = "idle"
    /\ bopts = NIL
    /\ bcfg = NIL
    /\ blog = <<>>
    /\ bio = <<>>
    /\ bresults = 0
    /\ writers = <<>>
    /\ wgCount = 0
    /\ boutputFiles = <<>>
    /\ bresult = NIL

\* ---- pkg/cli: runImpl, the three commands ------------------------------------------
\* A runImpl that returns 0 whatever the result holds.
ExitIgnoringErrors(errors) == 0

\* "if len(result.Errors) > 0 { return 1 }" and the "return 0" of line 816.
ExitFor(errors) == IF errors > 0 THEN 1 ELSE 0

\* runImpl, line 724: api.Build(*buildOptions) is entered.
BuildCall ==
    /\ cpc = "build_call"
    /\ bpc = "idle"
    /\ bopts' = buildOptions
    /\ bpc' = "validate"
    /\ cpc' = "build_running"
    /\ UNCHANGED <<argVars, parseVars, envNodePath, buildOptions,
                   transformOptions, analyseOptions, parseErr, stdinRead, apiErrors,
                   exitCode, summaryPrinted>>
    /\ UNCHANGED <<bcfg, blog, bio, bresults, writers, wgCount, boutputFiles, bresult>>
    /\ UNCHANGED <<linkVars, libVars>>

\* A runImpl without the watch branch: it returns after the build.
BuildResultReturned ==
    /\ cpc = "build_running"
    /\ bpc = "done"
    /\ apiErrors' = Len(bresult[1].Errors)
    /\ Return(ExitFor(Len(bresult[1].Errors)))
    /\ summaryPrinted' = (Len(bresult[1].Errors) = 0 /\ shouldPrintSummary)
    /\ UNCHANGED <<argVars, parseVars, envNodePath, buildOptions,
                   transformOptions, analyseOptions, parseErr, stdinRead>>
    /\ UNCHANGED <<buildVars, linkVars, libVars>>

\* runImpl, lines 726-739 and 816: in watch mode the receive on a fresh channel
\* never returns; else errors give 1, and success prints the summary and gives 0.
BuildResultBack ==
    /\ cpc = "build_running"
    /\ bpc = "done"
    /\ apiErrors' = Len(bresult[1].Errors)
    /\ IF buildOptions[1].Watch
       THEN /\ cpc' = "blocked"
            /\ UNCHANGED <<exitCode, summaryPrinted>>
       ELSE /\ Return(ExitFor(Len(bresult[1].Errors)))
            /\ summaryPrinted' = (Len(bresult[1].Errors) = 0 /\ shouldPrintSummary)
    /\ UNCHANGED <<argVars, parseVars, envNodePath, buildOptions,
                   transformOptions, analyseOptions, parseErr, stdinRead>>
    /\ UNCHANGED <<buildVars, linkVars, libVars>>

\* A panic in buildImpl unwinds through runImpl: the process dies.
BuildPanicked ==
    /\ cpc = "build_running"
    /\ bpc = PANIC
    /\ cpc' = "panic"
    /\ UNCHANGED <<argVars, parseVars, envNodePath, buildOptions,
                   transformOptions, analyseOptions, parseErr, stdinRead, apiErrors,
                   exitCode, summaryPrinted>>
    /\ UNCHANGED <<buildVars, linkVars, libVars>>

\* The errors transformImpl logs before ScanBundle (api_impl.go, the checks
\* after its config.Options literal).  Sourcefile is "<stdin>" by default.
TransformConfigErrors(t) ==
    IF validateSourceMap(t.Sourcemap) = "config.SourceMapLinkedWithComment" THEN 1 ELSE 0

\* runImpl, lines 743-762, with transformImpl reduced to its result: stdin is
\* read, then api.Transform validates (and may panic), scans and compiles.
TransformCall ==
    /\ cpc = "transform_stdin"
    /\ \E ok \in BOOLEAN, later \in 0..1 :
          IF ~ok
          THEN /\ stdinRead' = "failed"
               /\ Return(1)
               /\ UNCHANGED <<apiErrors, summaryPrinted>>
          ELSE /\ stdinRead' = "ok"
               /\ IF \/ validateSourceMap(transformOptions[1].Sourcemap) = PANIC
                     \/ validateFormat(transformOptions[1].Format) = PANIC
                  THEN /\ cpc' = "panic"
                       /\ UNCHANGED <<apiErrors, exitCode, summaryPrinted>>
                  ELSE LET n == IF TransformConfigErrors(transformOptions[1]) > 0
                                THEN TransformConfigErrors(transformOptions[1])
                                ELSE later
                       IN /\ apiErrors' = n
                          /\ Return(ExitFor(n))
                          /\ summaryPrinted' = (n = 0 /\ shouldPrintSummary)
    /\ UNCHANGED <<argVars, parseVars, envNodePath, buildOptions,
                   transformOptions, analyseOptions, parseErr>>
    /\ UNCHANGED <<buildVars, linkVars, libVars>>

\* runImpl, lines 768-779: with NODE_PATH in the environment the analyse
\* branch writes through buildOptions, which is nil here.
AnalyseEnv ==
    /\ cpc = "analyse_env"
    /\ \E np \in {"set", "unset"} :
          /\ envNodePath' = np
          /\ cpc' = IF np = "set" THEN "panic" ELSE "analyse_stdin"
    /\ UNCHANGED <<argVars, parseVars, buildOptions, transformOptions,
                   analyseOptions, parseErr, stdinRead, apiErrors, exitCode,
                   summaryPrinted>>
    /\ UNCHANGED <<buildVars, linkVars, libVars>>

\* runImpl, lines 782-803.
AnalyseStdin ==
    /\ cpc = "analyse_stdin"
    /\ LET c == StdinCase(analyseOptions[1])
       IN \/ /\ c = "read"
             /\ \E ok \in BOOLEAN :
                   IF ok
                   THEN /\ analyseOptions' = Ref(WithStdin(analyseOptions[1]))
                        /\ stdinRead' = "ok"
                        /\ cpc' = "analyse_call"
                        /\ exitCode' = exitCode
                   ELSE /\ analyseOptions' = Ref([analyseOptions[1] EXCEPT !.Stdin =
                               IF @ = NIL THEN Ref(newStdinOptions) ELSE @])
                        /\ stdinRead' = "failed"
                        /\ Return(1)
          \/ /\ c = "misuse"
             /\ Return(1)
             /\ UNCHANGED <<analyseOptions, stdinRead>>
          \/ /\ c = "none"
             /\ cpc' = "analyse_call"
             /\ UNCHANGED <<analyseOptions, stdinRead, exitCode>>
    /\ UNCHANGED <<argVars, parseVars, envNodePath, buildOptions,
                   transformOptions, parseErr, apiErrors, summaryPrinted>>
    /\ UNCHANGED <<buildVars, linkVars, libVars>>

\* The number of errors analyseImpl logs before ScanBundle.
AnalyseConfigErrors(a, amdParsed, abs) ==
    Len(convertMessagesToPublic("error", AnalyseValidated(a, amdParsed, abs).log))

\* runImpl, lines 806-809 and 816, with analyseImpl reduced to its result.
AnalyseCall ==
    /\ cpc = "analyse_call"
    /\ IF validatePlatform(analyseOptions[1].Platform) = PANIC
       THEN /\ cpc' = "panic"
            /\ UNCHANGED <<apiErrors, exitCode>>
       ELSE \E amdParsed \in BOOLEAN, abs \in AbsOutcomes, later \in 0..1 :
               LET c == AnalyseConfigErrors(analyseOptions[1], amdParsed, abs)
                   n == IF c > 0 THEN c ELSE later
               IN /\ apiErrors' = n
                  /\ Return(ExitFor(n))
    /\ UNCHANGED <<argVars, parseVars, envNodePath, buildOptions,
                   transformOptions, analyseOptions, parseErr, stdinRead,
                   summaryPrinted>>
    /\ UNCHANGED <<buildVars, linkVars, libVars>>

\* ---- internal/bundler: the import-star bundles of the tests ----------------------------
FooPath == "/foo.ts"
BarPath == "/bar.ts"

\* The bundles: how the entry reaches the namespace of foo ("star": import *
\* from foo; "exportStar", "exportImportStar", "exportStarAs": through what
\* bar.ts holds), how the entry uses the binding ns, whether foo.ts is an ES
\* module or assigns to exports, and whether a second entry require()s foo.
Bundles ==
    {[graph |-> g, use |-> u, fooKind |-> "esm", require |-> FALSE] :
        g \in {"star", "exportStar", "exportImportStar", "exportStarAs"},
        u \in {"unused", "nocapture", "capture"}}
    \cup {[graph |-> "star", use |-> u, fooKind |-> "cjs", require |-> FALSE] :
            u \in {"unused", "nocapture", "capture"}}
    \cup {[graph |-> "star", use |-> u, fooKind |-> "esm", require |-> TRUE] :
            u \in {"nocapture", "capture"}}

\* entryPaths of the bundle.
EntryPaths(scn) ==
    IF scn.require THEN <<"/entry1.js", "/entry2.js">> ELSE <<"/entry.ts">>

\* An import record of a file: its statement form, the file it names, and
\* how the file uses the binding.
ImportRecord(form, target, use) == [form |-> form, target |-> target, use |-> use]

\* The one import record of bar.ts.
BarImport(scn) ==
    IF scn.graph = "exportStar" THEN ImportRecord("exportStar", FooPath, "reexport")
    ELSE IF scn.graph = "exportImportStar"
    THEN ImportRecord("importStar", FooPath, "capture")
    ELSE ImportRecord("exportStarAs", FooPath, "reexport")

\* The one import record of the entry that imports.
EntryImport(scn) ==
    IF scn.graph = "star" THEN ImportRecord("importStar", FooPath, scn.use)
    ELSE IF scn.graph = "exportStar" THEN ImportRecord("importStar", BarPath, scn.use)
    ELSE ImportRecord("importNamed", BarPath, scn.use)

\* The files of the bundle as the parser sees them.
FileOf(scn, path) ==
    IF path = FooPath
    THEN [usesExports |-> scn.fooKind = "cjs", imp |-> NIL, ts |-> TRUE, localFoo |-> FALSE]
    ELSE IF path = BarPath
    THEN [usesExports |-> FALSE, imp |-> Ref(BarImport(scn)), ts |-> TRUE,
          localFoo |-> FALSE]
    ELSE IF path = "/entry2.js"
    THEN [usesExports |-> FALSE, imp |-> Ref(ImportRecord("require", FooPath, "nocapture")),
          ts |-> FALSE, localFoo |-> FALSE]
    ELSE [usesExports |-> FALSE, imp |-> Ref(EntryImport(scn)), ts |-> path = "/entry.ts",
          localFoo |-> path = "/entry.ts"]

\* A parser that keeps the import records of bindings never referenced.
KeptUnreferenced(file) == IF file.imp = NIL THEN {} ELSE {file.imp[1]}

\* The import records the parser keeps: TypeScript drops an import whose
\* binding the file never references.
KeptImports(file) ==
    IF file.imp = NIL THEN {}
    ELSE IF file.ts /\ file.imp[1].form \in {"importStar", "importNamed"}
            /\ file.imp[1].use = "unused"
    THEN {}
    ELSE {file.imp[1]}

\* One file is parsed: it joins the bundle, and the files it imports are
\* queued unless they are in the bundle or queued already.
ParseFile(path) ==
    /\ lpc = "scan"
    /\ path \in lpending
    /\ lscanned' = lscanned \cup {path}
    /\ lorder' = Append(lorder, path)
    /\ lpending' = (lpending \ {path})
                   \cup ({r.target : r \in KeptImports(FileOf(lscn, path))}
                         \ (lscanned \cup {path}))
    /\ UNCHANGED <<lscn, lpc, lwrapped, lnsobjs, lids, lout>>
    /\ UNCHANGED <<cliVars, buildVars, libVars>>

\* A linker that wraps the modules assigning to exports and forgets the
\* targets of require() calls.
WrapExportsWritersOnly(scn, scanned, m) == FileOf(scn, m).usesExports

\* A linker that prints every module inline.
WrapNothing(scn, scanned, m) == FALSE

\* A module is emitted as a wrapped module function when it assigns to
\* exports or is the target of a require() call.
MustWrap(scn, scanned, m) ==
    \/ FileOf(scn, m).usesExports
    \/ \E f \in scanned : \E r \in KeptImports(FileOf(scn, f)) :
          r.target = m /\ r.form = "require"

\* A linker that builds the namespace object of every imported module,
\* whatever the importing file does with the binding.
NamespaceOfAnyImport(scn, scanned, m) ==
    \E f \in scanned : \E r \in KeptImports(FileOf(scn, f)) : r.target = m

\* A module that is not wrapped gets a namespace object when a file of the
\* bundle holds its namespace as a value: "import * as ns" with ns captured
\* (passed on or exported), or "export * as ns".
NamespaceObserved(scn, scanned, m) ==
    \E f \in scanned : \E r \in KeptImports(FileOf(scn, f)) :
       /\ r.target = m
       /\ \/ r.form = "importStar" /\ r.use = "capture"
          \/ r.form = "exportStarAs"

\* The scan is over: the modules are classified.
ClassifyModules ==
    /\ lpc = "scan"
    /\ lpending = {}
    /\ lwrapped' = {m \in lscanned : MustWrap(lscn, lscanned, m)}
    /\ lnsobjs' = {m \in lscanned : ~MustWrap(lscn, lscanned, m)
                                    /\ NamespaceObserved(lscn, lscanned, m)}
    /\ lpc' = "ids"
    /\ UNCHANGED <<lscn, lpending, lscanned, lorder, lids, lout>>
    /\ UNCHANGED <<cliVars, buildVars, libVars>>

\* The paths of the tests in sorted order.
SortedPaths == <<"/bar.ts", "/entry.ts", "/entry1.js", "/entry2.js", "/foo.ts">>

PathRank(path) == CHOOSE i \in 1..Len(SortedPaths) : SortedPaths[i] = path

\* Ids handed out in the order the scan took the files from its queue.
IdInScanOrder(path, scanned) ==
    (CHOOSE i \in 1..Len(lorder) : lorder[i] = path) - 1

\* The id of a module: the number of files of the bundle sorted before it.
ModuleId(path, scanned) ==
    Cardinality({q \in scanned : PathRank(q) < PathRank(path)})

\* The modules get their ids.
AssignIds ==
    /\ lpc = "ids"
    /\ lids' = [m \in lscanned |-> ModuleId(m, lscanned)]
    /\ lpc' = "print"
    /\ UNCHANGED <<lscn, lpending, lscanned, lorder, lwrapped, lnsobjs, lout>>
    /\ UNCHANGED <<cliVars, buildVars, libVars>>

\* A chunk that holds its entry and nothing the entry imports.
ReachEntryOnly(scn, path) == {path}

\* The files a chunk holds: the entry and what it reaches over kept imports.
RECURSIVE Reach(_, _)
Reach(scn, path) ==
    {path} \cup UNION {Reach(scn, r.target) : r \in KeptImports(FileOf(scn, path))}

\* The modules printed inline in the entry's function, imported files first.
RECURSIVE BodyOrder(_, _, _)
BodyOrder(scn, path, wrapped) ==
    LET kept == KeptImports(FileOf(scn, path))
        before == IF kept = {} THEN <<>>
                  ELSE BodyOrder(scn, (CHOOSE r \in kept : TRUE).target, wrapped)
    IN before \o (IF path \in wrapped THEN <<>> ELSE <<path>>)

\* A renamer that leaves the imported constant its name.
FooUnrenamed(scn, entry, wrapped) == "foo"

\* The name foo.ts's constant foo is printed under in the chunk of entry: the
\* entry's own foo keeps the name when both are in one scope.
FooSymbol(scn, entry, wrapped) ==
    IF FooPath \notin wrapped /\ FileOf(scn, entry).localFoo THEN "foo2" ELSE "foo"

\* The name of a module's namespace object.
NamespaceName(m) == IF m = BarPath THEN "bar" ELSE "exports"

\* The arguments of the entry's console.log call as the source has them.
EntryArgs(scn, entry) ==
    LET use == IF entry = "/entry2.js" THEN "nocapture" ELSE scn.use
        ns == IF use = "capture" THEN <<"ns", "ns.foo">>
              ELSE IF use = "nocapture"
              THEN (IF entry = "/entry.ts" THEN <<"ns.foo", "ns.foo">> ELSE <<"ns.foo">>)
              ELSE <<>>
    IN ns \o (IF FileOf(scn, entry).localFoo THEN <<"foo">> ELSE <<>>)

\* One argument as it is printed.  A namespace of a wrapped module stays a
\* runtime object; "import * as ns" of an inlined module turns ns into the
\* namespace object and ns.foo into the symbol the name resolves to; a
\* namespace imported by name from bar is foo's namespace object.
PrintArg(scn, entry, wrapped, arg) ==
    LET r == FileOf(scn, entry).imp[1]
    IN IF arg = "foo" THEN "foo"
       ELSE IF r.target \in wrapped THEN arg
       ELSE IF r.form = "importStar"
       THEN (IF arg = "ns" THEN NamespaceName(r.target) ELSE FooSymbol(scn, entry, wrapped))
       ELSE (IF arg = "ns" THEN NamespaceName(FooPath) ELSE NamespaceName(FooPath) \o ".foo")

\* "__export(name, {foo: () => symbol})"
Getter(symbol) == <<"foo", symbol>>

\* The chunk of one entry: the id bootstrap starts, the wrapped modules with
\* their ids, the modules inlined, the namespace objects, the __import or
\* __require call of the entry and the arguments of its console.log call.
Chunk(scn, entry, wrapped, nsobjs, ids) ==
    LET kept == KeptImports(FileOf(scn, entry))
        args == EntryArgs(scn, entry)
    IN [entryId |-> ids[entry],
        wrappers |-> {[id |-> ids[m], path |-> m,
                       getters |-> IF FileOf(scn, m).usesExports THEN {}
                                   ELSE {Getter("foo")}] :
                      m \in Reach(scn, entry) \cap wrapped},
        body |-> BodyOrder(scn, entry, wrapped),
        namespaces |-> {[module |-> m, name |-> NamespaceName(m),
                         getters |-> {Getter(FooSymbol(scn, entry, wrapped))}] :
                        m \in Reach(scn, entry) \cap nsobjs},
        binds |-> {[call |-> IF r.form = "require" THEN "__require" ELSE "__import",
                    id |-> ids[r.target]] : r \in {k \in kept : k.target \in wrapped}},
        log |-> [i \in 1..Len(args) |-> PrintArg(scn, entry, wrapped, args[i])]]

\* The set of the elements of a sequence.
Range(s) == {s[i] : i \in 1..Len(s)}

\* The chunk of one entry is generated and printed.
GenerateChunk(entry) ==
    /\ lpc = "print"
    /\ entry \in Range(EntryPaths(lscn))
    /\ entry \notin DOMAIN lout
    /\ lout' = (entry :> Chunk(lscn, entry, lwrapped, lnsobjs, lids)) @@ lout
    /\ UNCHANGED <<lscn, lpc, lpending, lscanned, lorder, lwrapped, lnsobjs, lids>>
    /\ UNCHANGED <<cliVars, buildVars, libVars>>

\* Every entry has its chunk.
LinkDone ==
    /\ lpc = "print"
    /\ DOMAIN lout = Range(EntryPaths(lscn))
    /\ lpc' = "done"
    /\ UNCHANGED <<lscn, lpending, lscanned, lorder, lwrapped, lnsobjs, lids, lout>>
    /\ UNCHANGED <<cliVars, buildVars, libVars>>

\* The bundler is not involved.
LinkIdle ==
    /\ lscn = NIL
    /\ lpc = "idle"
    /\ lpending = {}
    /\ lscanned = {}
    /\ lorder = <<>>
    /\ lwrapped = {}
    /\ lnsobjs = {}
    /\ lids = <<>>
    /\ lout = <<>>

\* The renamer is not involved.
RenameIdle ==
    /\ rsyms = <<>>
    /\ rnames = <<>>

\* No AMD configuration is in use.
AmdIdle ==
    /\ amdJson = NIL
    /\ amdOptions = NIL
    /\ backwardPaths = <<>>
    /\ pluginExpressions = <<>>
    /\ acalls = <<>>

\* analyseImpl has not been called.
AnalyseIdle ==
    /\ apc = "idle"
    /\ aopts = NIL
    /\ acfg = NIL
    /\ alog = <<>>
    /\ ametadata = NIL
    /\ aresult = NIL
    /\ awriter = "none"
    /\ awgCount = 0

\* validateDefines has not been called.
DefineIdle ==
    /\ dpc = "idle"
    /\ ddefines = <<>>
    /\ dpureFns = <<>>
    /\ dpending = {}
    /\ dpureIdx = 0
    /\ dlog = <<>>
    /\ rawDefines = <<>>

\* No plugin has given a filter.
FilterIdle ==
    /\ filterMutex = 0
    /\ filterCache = NIL
    /\ fcalls = <<>>

\* None of the three is involved.
ExtIdle == AnalyseIdle /\ DefineIdle /\ FilterIdle

\* ---- the command line, from the arguments to the exit code -------------------------
RECURSIVE SeqsUpTo(_, _)
SeqsUpTo(S, n) ==
    IF n = 0 THEN {<<>>}
    ELSE LET shorter == SeqsUpTo(S, n - 1)
         IN shorter \cup {Append(s, x) : s \in shorter, x \in S}

InitCli ==
    /\ rawArgs \in SeqsUpTo(ArgAlphabet, MaxArgs)
    /\ osArgs = rawArgs
    /\ shouldPrintSummary = FALSE
    /\ envNodePath = "unread"
    /\ cpc = "start"
    /\ pcmd = "none"
    /\ pargs = <<>>
    /\ pidx = 0
    /\ pst = ParseState(NIL, NIL, NIL)
    /\ buildOptions = NIL
    /\ transformOptions = NIL
    /\ analyseOptions = NIL
    /\ parseErr = ""
    /\ stdinRead = "none"
    /\ apiErrors = -1
    /\ exitCode = -1
    /\ summaryPrinted = FALSE
    /\ BuildIdle
    /\ LinkIdle
    /\ RenameIdle
    /\ AmdIdle
    /\ ExtIdle

NextCli ==
    \/ RunFilter
    \/ RunServe
    \/ RunSelect
    \/ ParseStep
    \/ ServeReturn
    \/ RunParse
    \/ BuildEnv
    \/ BuildStdin
    \/ BuildCall
    \/ BuildStep
    \/ BuildResultBack
    \/ BuildPanicked
    \/ TransformCall
    \/ AnalyseEnv
    \/ AnalyseStdin
    \/ AnalyseCall

SpecCli == InitCli /\ [][NextCli]_vars

\* ---- parseOptionsForRun on source-map and output flags -------------------------------
\* The number of arguments of these command lines.
MaxParseArgs == 4

\* The arguments of these command lines.
SourceMapArgs ==
    {"--bundle", "--sourcemap", "--sourcemap=external", "--sourcemap=both",
     "--sourcemap=linked", "--outfile=out.js", "--outdir=out"}

InitParse ==
    /\ rawArgs \in SeqsUpTo(SourceMapArgs, MaxParseArgs)
    /\ osArgs = rawArgs
    /\ shouldPrintSummary = FALSE
    /\ envNodePath = "unread"
    /\ cpc = "start"
    /\ pcmd = "none"
    /\ pargs = <<>>
    /\ pidx = 0
    /\ pst = ParseState(NIL, NIL, NIL)
    /\ buildOptions = NIL
    /\ transformOptions = NIL
    /\ analyseOptions = NIL
    /\ parseErr = ""
    /\ stdinRead = "none"
    /\ apiErrors = -1
    /\ exitCode = -1
    /\ summaryPrinted = FALSE
    /\ BuildIdle
    /\ LinkIdle
    /\ RenameIdle
    /\ AmdIdle
    /\ ExtIdle

\* runImpl up to the return of parseOptionsForRun.
NextParse ==
    \/ RunFilter
    \/ RunSelect
    \/ ParseStep
    \/ RunParse

SpecParse == InitParse /\ [][NextParse]_vars

\* ---- api.Build, called with options of the API ---------------------------------------
EntryName(i) == IF i = 1 THEN "entry.js" ELSE "lib.js"

\* The BuildOptions the API is called with: the zero value of newBuildOptions
\* with some of its fields set.
BuildOptionsDomain ==
    {[newBuildOptions EXCEPT
        !.Bundle = bundle, !.Splitting = splitting, !.Sourcemap = sourcemap,
        !.Platform = platform, !.Format = format, !.Outfile = outfile,
        !.Outdir = outdir, !.Metafile = metafile, !.AMDConfig = amd,
        !.EntryPoints = [i \in 1..n |-> EntryName(i)], !.Write = write] :
     bundle \in BOOLEAN, splitting \in BOOLEAN,
     sourcemap \in {"SourceMapNone", "SourceMapExternal"},
     platform \in {"PlatformBrowser", "PlatformNode"},
     format \in {"FormatDefault", "FormatESModule", "FormatUMD"},
     outfile \in {"", "out.js"}, outdir \in {"", "out"},
     metafile \in {"", "meta.json"}, amd \in {"", "config.json"},
     n \in 0..MaxEntryPoints, write \in BOOLEAN}

\* The command line is not involved.
CliIdle ==
    /\ rawArgs = <<>>
    /\ osArgs = <<>>
    /\ shouldPrintSummary = FALSE
    /\ envNodePath = "unread"
    /\ cpc = "api"
    /\ pcmd = "none"
    /\ pargs = <<>>
    /\ pidx = 0
    /\ pst = ParseState(NIL, NIL, NIL)
    /\ buildOptions = NIL
    /\ transformOptions = NIL
    /\ analyseOptions = NIL
    /\ parseErr = ""
    /\ stdinRead = "none"
    /\ apiErrors = -1
    /\ exitCode = -1
    /\ summaryPrinted = FALSE

InitBuild ==
    /\ CliIdle
    /\ bopts \in {Ref(o) : o \in BuildOptionsDomain}
    /\ bpc = "validate"
    /\ bcfg = NIL
    /\ blog = <<>>
    /\ bio = <<>>
    /\ bresults = 0
    /\ writers = <<>>
    /\ wgCount = 0
    /\ boutputFiles = <<>>
    /\ bresult = NIL
    /\ LinkIdle
    /\ RenameIdle
    /\ AmdIdle
    /\ ExtIdle

NextBuild == BuildStep

SpecBuild == InitBuild /\ [][NextBuild]_vars

\* The calls of buildImpl that write: with or without an output file, which
\* decides between the writers and stdout, and with any number of entry points.
InitBuildWriting ==
    /\ InitBuild
    /\ bopts[1].Write
    /\ ~bopts[1].Splitting
    /\ bopts[1].Sourcemap = "SourceMapNone"
    /\ bopts[1].Platform = "PlatformBrowser"
    /\ bopts[1].Format = "FormatDefault"
    /\ bopts[1].Metafile = ""
    /\ bopts[1].AMDConfig = ""
    /\ bopts[1].Outdir = ""

\* buildImpl with a scheduler that lets every goroutine that can run get on.
SpecBuildFair == InitBuildWriting /\ [][NextBuild]_vars /\ WF_vars(NextBuild)

\* ---- pkg/api: analyseImpl --------------------------------------------------------------
\* Lines 1039-1140: the options are validated; validatePlatform may panic;
\* with an error in the log analyseImpl stops before ScanBundle.
AnalyseValidate ==
    /\ apc = "validate"
    /\ IF validatePlatform(aopts[1].Platform) = PANIC
       THEN /\ apc' = PANIC
            /\ UNCHANGED <<acfg, alog>>
       ELSE \E amdParsed \in BOOLEAN, abs \in AbsOutcomes :
               LET v == AnalyseValidated(aopts[1], amdParsed, abs)
               IN /\ acfg' = Ref(v.cfg)
                  /\ alog' = v.log
                  /\ apc' = IF HasErrors(v.log) THEN "collect" ELSE "scan"
    /\ UNCHANGED <<aopts, ametadata, aresult, awriter, awgCount, defineVars, filterVars>>
    /\ UNCHANGED <<cliVars, buildVars, linkVars, renameVars, amdVars>>

\* Lines 1142-1147: ScanBundle runs; with an error in the log analyseImpl stops.
AnalyseScan ==
    /\ apc = "scan"
    /\ \E outcome \in StageOutcomes :
          LET log == Logged(alog, "scan", outcome)
          IN /\ alog' = log
             /\ apc' = IF HasErrors(log) THEN "collect" ELSE "analyse"
    /\ UNCHANGED <<aopts, acfg, ametadata, aresult, awriter, awgCount, defineVars,
                   filterVars>>
    /\ UNCHANGED <<cliVars, buildVars, linkVars, renameVars, amdVars>>

\* Lines 1148-1153: bundle.Analyse() gives the metadata; it is written only
\* without errors and with "write".
AnalyseBundle ==
    /\ apc = "analyse"
    /\ ametadata' = Ref("metadata")
    /\ \E outcome \in StageOutcomes :
          LET log == Logged(alog, "analyse", outcome)
          IN /\ alog' = log
             /\ apc' = IF ~HasErrors(log) /\ aopts[1].Write THEN "write" ELSE "collect"
    /\ UNCHANGED <<aopts, acfg, aresult, awriter, awgCount, defineVars, filterVars>>
    /\ UNCHANGED <<cliVars, buildVars, linkVars, renameVars, amdVars>>

\* Lines 1156-1160: the metadata goes to stdout.
AnalyseWriteStdout ==
    /\ apc = "write"
    /\ acfg[1].WriteToStdout
    /\ \E ok \in BOOLEAN :
          alog' = IF ok THEN alog ELSE AddError(alog, "Failed to write to stdout")
    /\ apc' = "collect"
    /\ UNCHANGED <<aopts, acfg, ametadata, aresult, awriter, awgCount, defineVars,
                   filterVars>>
    /\ UNCHANGED <<cliVars, buildVars, linkVars, renameVars, amdVars>>

\* Lines 1163-1165: waitGroup.Add(1) and the goroutine that writes the
\* metadata file is started.
AnalyseStartWriter ==
    /\ apc = "write"
    /\ ~acfg[1].WriteToStdout
    /\ awgCount' = 1
    /\ awriter' = "started"
    /\ apc' = "wait"
    /\ UNCHANGED <<aopts, acfg, alog, ametadata, aresult, defineVars, filterVars>>
    /\ UNCHANGED <<cliVars, buildVars, linkVars, renameVars, amdVars>>

\* Lines 1166-1168: the goroutine makes the directory of the metadata file,
\* which may fail.
AnalyseWriterMkdir ==
    /\ apc = "wait"
    /\ awriter = "started"
    /\ \E ok \in BOOLEAN : awriter' = IF ok THEN "made" ELSE "mkdir failed"
    /\ UNCHANGED <<apc, aopts, acfg, alog, ametadata, aresult, awgCount, defineVars,
                   filterVars>>
    /\ UNCHANGED <<cliVars, buildVars, linkVars, renameVars, amdVars>>

\* Lines 1172-1173: the goroutine writes the metadata file, which may fail.
AnalyseWriterWrite ==
    /\ apc = "wait"
    /\ awriter = "made"
    /\ \E ok \in BOOLEAN : awriter' = IF ok THEN "written" ELSE "write failed"
    /\ UNCHANGED <<apc, aopts, acfg, alog, ametadata, aresult, awgCount, defineVars,
                   filterVars>>
    /\ UNCHANGED <<cliVars, buildVars, linkVars, renameVars, amdVars>>

\* Lines 1169-1170 and 1174-1175: the goroutine logs the error of MkdirAll or
\* of WriteFile.
AnalyseWriterError ==
    /\ apc = "wait"
    /\ awriter \in {"mkdir failed", "write failed"}
    /\ alog' = AddError(alog, IF awriter = "mkdir failed"
                              THEN "Failed to create output directory"
                              ELSE "Failed to write to output file")
    /\ awriter' = "logged"
    /\ UNCHANGED <<apc, aopts, acfg, ametadata, aresult, awgCount, defineVars,
                   filterVars>>
    /\ UNCHANGED <<cliVars, buildVars, linkVars, renameVars, amdVars>>

\* Line 1178: the goroutine, with the file written or its error logged, calls
\* waitGroup.Done() and ends.
AnalyseWriterDone ==
    /\ apc = "wait"
    /\ awriter \in {"written", "logged"}
    /\ awriter' = "done"
    /\ awgCount' = awgCount - 1
    /\ UNCHANGED <<apc, aopts, acfg, alog, ametadata, aresult, defineVars, filterVars>>
    /\ UNCHANGED <<cliVars, buildVars, linkVars, renameVars, amdVars>>

\* Line 1180: waitGroup.Wait() returns once the counter is zero.
AnalyseWait ==
    /\ apc = "wait"
    /\ awgCount = 0
    /\ apc' = "collect"
    /\ UNCHANGED <<aopts, acfg, alog, ametadata, aresult, awriter, awgCount, defineVars,
                   filterVars>>
    /\ UNCHANGED <<cliVars, buildVars, linkVars, renameVars, amdVars>>

\* Lines 1186-1191: log.Done() and the AnalyseResult.
AnalyseReturn ==
    /\ apc = "collect"
    /\ aresult' = Ref([Errors |-> convertMessagesToPublic("error", alog),
                       Warnings |-> convertMessagesToPublic("warning", alog),
                       Metadata |-> ametadata])
    /\ apc' = "done"
    /\ UNCHANGED <<aopts, acfg, alog, ametadata, awriter, awgCount, defineVars,
                   filterVars>>
    /\ UNCHANGED <<cliVars, buildVars, linkVars, renameVars, amdVars>>

AnalyseStep ==
    \/ AnalyseValidate
    \/ AnalyseScan
    \/ AnalyseBundle
    \/ AnalyseWriteStdout
    \/ AnalyseStartWriter
    \/ AnalyseWriterMkdir
    \/ AnalyseWriterWrite
    \/ AnalyseWriterError
    \/ AnalyseWriterDone
    \/ AnalyseWait
    \/ AnalyseReturn

\* The AnalyseOptions the API is called with.
AnalyseOptionsDomain ==
    {[newAnalyseOptions EXCEPT
        !.Bundle = bundle, !.Splitting = splitting, !.Platform = platform,
        !.Metafile = metafile, !.AMDConfig = amd,
        !.EntryPoints = [i \in 1..n |-> EntryName(i)], !.Write = write] :
     bundle \in BOOLEAN, splitting \in BOOLEAN,
     platform \in {"PlatformBrowser", "PlatformNode", "PlatformNeutral"},
     metafile \in {"", "meta.json"}, amd \in {"", "config.json"},
     n \in 0..MaxEntryPoints, write \in BOOLEAN}

InitAnalyse ==
    /\ CliIdle
    /\ BuildIdle
    /\ LinkIdle
    /\ RenameIdle
    /\ AmdIdle
    /\ DefineIdle
    /\ FilterIdle
    /\ aopts \in {Ref(o) : o \in AnalyseOptionsDomain}
    /\ apc = "validate"
    /\ acfg = NIL
    /\ alog = <<>>
    /\ ametadata = NIL
    /\ aresult = NIL
    /\ awriter = "none"
    /\ awgCount = 0

\* ---- api.Build and api.Analyse, called with options of the API -------------------------
InitApi == InitBuild \/ InitAnalyse

NextApi == BuildStep \/ AnalyseStep

SpecApi == InitApi /\ [][NextApi]_vars

\* ---- pkg/api: validateDefines ------------------------------------------------------------
\* A key is the sequence of its "."-separated parts (strings.Split).
\* js_lexer.IsIdentifier over the parts and values of the model.
IsIdentifier(text) == text \in {"a", "b", "x", "true", "if"}

\* Membership in js_lexer.Keywords over the values of the model.
IsKeyword(text) == text \in {"true", "if"}

\* What js_parser.ParseJSON makes of a value of the model: an atom, another
\* expression, or nothing.
ParseJSON(text) ==
    IF text = "true" THEN "atom" ELSE IF text = "[1]" THEN "compound" ELSE "invalid"

\* The inner loop over the parts of a key: one message per part that is no
\* identifier; its "continue" goes on with the next part.
RECURSIVE PartErrors(_, _, _, _)
PartErrors(log, key, i, text) ==
    IF i > Len(key) THEN log
    ELSE PartErrors(IF IsIdentifier(key[i]) THEN log
                    ELSE Append(log, Msg("error", <<text, key>>)),
                    key, i + 1, text)

\* config.DefineData
DefineData(fn, pure) == [DefineFunc |-> fn, CallCanBeUnwrappedIfUnused |-> pure]

\* The body of the first loop behind the check of the key, lines 308-345.
DefineValue(log, raw, key, value) ==
    IF IsIdentifier(value) /\ ~IsKeyword(value)
    THEN [log |-> log, raw |-> (key :> DefineData("identifier", FALSE)) @@ raw]
    ELSE IF ParseJSON(value) = "atom"
    THEN [log |-> log, raw |-> (key :> DefineData("atom", FALSE)) @@ raw]
    ELSE [log |-> Append(log, Msg("error", <<"Invalid define value", value>>)),
          raw |-> raw]

\* Lines 292-294: without defines and pure functions the result is nil.
DefinesStart ==
    /\ dpc = "start"
    /\ dpc' = IF DOMAIN ddefines = {} /\ dpureFns = <<>> THEN "nil" ELSE "loop"
    /\ UNCHANGED <<ddefines, dpureFns, dpending, dpureIdx, dlog, rawDefines>>
    /\ UNCHANGED <<analyseVars, filterVars>>
    /\ UNCHANGED <<cliVars, buildVars, linkVars, renameVars, amdVars>>

\* One iteration of the loop over the defines, lines 298-346; the order of a
\* Go map is any.
DefineKey(key) ==
    /\ dpc = "loop"
    /\ key \in dpending
    /\ LET r == DefineValue(PartErrors(dlog, key, 1, "Invalid define key"),
                            rawDefines, key, ddefines[key])
       IN /\ dlog' = r.log
          /\ rawDefines' = r.raw
    /\ dpending' = dpending \ {key}
    /\ UNCHANGED <<dpc, ddefines, dpureFns, dpureIdx>>
    /\ UNCHANGED <<analyseVars, filterVars>>
    /\ UNCHANGED <<cliVars, buildVars, linkVars, renameVars, amdVars>>

\* One iteration of the loop over the pure functions, lines 348-361.
PureKey ==
    /\ dpc = "loop"
    /\ dpending = {}
    /\ dpureIdx <= Len(dpureFns)
    /\ LET key == dpureFns[dpureIdx]
           define == IF key \in DOMAIN rawDefines THEN rawDefines[key]
                     ELSE DefineData(NIL, FALSE)
       IN /\ dlog' = PartErrors(dlog, key, 1, "Invalid pure function")
          /\ rawDefines' = (key :> [define EXCEPT !.CallCanBeUnwrappedIfUnused = TRUE])
                           @@ rawDefines
    /\ dpureIdx' = dpureIdx + 1
    /\ UNCHANGED <<dpc, ddefines, dpureFns, dpending>>
    /\ UNCHANGED <<analyseVars, filterVars>>
    /\ UNCHANGED <<cliVars, buildVars, linkVars, renameVars, amdVars>>

\* Lines 363-366: rawDefines is processed and returned.
DefinesReturn ==
    /\ dpc = "loop"
    /\ dpending = {}
    /\ dpureIdx > Len(dpureFns)
    /\ dpc' = "done"
    /\ UNCHANGED <<ddefines, dpureFns, dpending, dpureIdx, dlog, rawDefines>>
    /\ UNCHANGED <<analyseVars, filterVars>>
    /\ UNCHANGED <<cliVars, buildVars, linkVars, renameVars, amdVars>>

\* The number of defines and of pure functions of a call.
MaxDefines == 2
MaxPure == 1

\* The keys and the values of the model.
DefineKeys == {<<"a", "b">>, <<"1x">>, <<"a", "1x", "">>}
DefineValues == {"x", "true", "if", "[1]"}

InitDefines ==
    /\ CliIdle
    /\ BuildIdle
    /\ LinkIdle
    /\ RenameIdle
    /\ AmdIdle
    /\ AnalyseIdle
    /\ FilterIdle
    /\ ddefines \in UNION {[S -> DefineValues] :
                              S \in {T \in SUBSET DefineKeys : Cardinality(T) <= MaxDefines}}
    /\ dpureFns \in SeqsUpTo(DefineKeys, MaxPure)
    /\ dpending = DOMAIN ddefines
    /\ dpureIdx = 1
    /\ dpc = "start"
    /\ dlog = <<>>
    /\ rawDefines = <<>>

NextDefines ==
    \/ DefinesStart
    \/ \E key \in DefineKeys : DefineKey(key)
    \/ PureKey
    \/ DefinesReturn

SpecDefines == InitDefines /\ [][NextDefines]_vars

\* ---- config: compileFilter and CompileFilterForPlugin ------------------------------------
\* Whether regexp.Compile takes a filter of the model.
IsRegexp(filter) == filter \in {"a+", "^b"}

\* The filters of the model: none, two regular expressions and a text that
\* is none.
Filters == {"", "a+", "^b", "("}

\* The *regexp.Regexp regexp.Compile gives call i for a filter.
Regexp(filter, i) == Ref([source |-> filter, compiledBy |-> i])

\* A call of CompileFilterForPlugin that has not started.
FilterCall(filter) ==
    [filter |-> filter, pc |-> "start", result |-> NIL, ok |-> FALSE, err |-> ""]

\* CompileFilterForPlugin and compileFilter up to the closure: an empty
\* filter is an error, and nil from compileFilter.
FilterStart(i) ==
    /\ fcalls[i].pc = "start"
    /\ fcalls' = [fcalls EXCEPT
           ![i].pc = IF fcalls[i].filter = "" THEN "done" ELSE "lookup",
           ![i].err = IF fcalls[i].filter = "" THEN "is missing a filter" ELSE ""]
    /\ UNCHANGED <<filterMutex, filterCache, analyseVars, defineVars>>
    /\ UNCHANGED <<cliVars, buildVars, linkVars, renameVars, amdVars>>

\* A call that goes on to read the cache without the mutex.
FilterEnterRead(i) ==
    /\ fcalls[i].pc = "lookup"
    /\ fcalls' = [fcalls EXCEPT ![i].pc = "read"]
    /\ UNCHANGED <<filterMutex, filterCache, analyseVars, defineVars>>
    /\ UNCHANGED <<cliVars, buildVars, linkVars, renameVars, amdVars>>

\* filterMutex.Lock() of the closure.
FilterLockRead(i) ==
    /\ fcalls[i].pc = "lookup"
    /\ filterMutex = 0
    /\ filterMutex' = i
    /\ fcalls' = [fcalls EXCEPT ![i].pc = "read"]
    /\ UNCHANGED <<filterCache, analyseVars, defineVars>>
    /\ UNCHANGED <<cliVars, buildVars, linkVars, renameVars, amdVars>>

\* "result, ok = filterCache[filter]" when there is a cache.
FilterRead(i) ==
    /\ fcalls[i].pc = "read"
    /\ LET hit == filterCache # NIL /\ fcalls[i].filter \in DOMAIN filterCache[1]
       IN fcalls' = [fcalls EXCEPT
              ![i].result = IF hit THEN filterCache[1][fcalls[i].filter] ELSE NIL,
              ![i].ok = hit,
              ![i].pc = "read unlock"]
    /\ UNCHANGED <<filterMutex, filterCache, analyseVars, defineVars>>
    /\ UNCHANGED <<cliVars, buildVars, linkVars, renameVars, amdVars>>

\* The deferred filterMutex.Unlock() of the closure, and the return on a hit.
FilterUnlockRead(i) ==
    /\ fcalls[i].pc = "read unlock"
    /\ filterMutex' = 0
    /\ fcalls' = [fcalls EXCEPT ![i].pc = IF fcalls[i].ok THEN "done" ELSE "compile"]
    /\ UNCHANGED <<filterCache, analyseVars, defineVars>>
    /\ UNCHANGED <<cliVars, buildVars, linkVars, renameVars, amdVars>>

\* regexp.Compile: nil for what is no regular expression, which
\* CompileFilterForPlugin turns into an error.
FilterCompile(i) ==
    /\ fcalls[i].pc = "compile"
    /\ fcalls' = [fcalls EXCEPT
           ![i].result = IF IsRegexp(fcalls[i].filter) THEN Regexp(fcalls[i].filter, i)
                         ELSE NIL,
           ![i].pc = IF IsRegexp(fcalls[i].filter) THEN "store" ELSE "done",
           ![i].err = IF IsRegexp(fcalls[i].filter) THEN ""
                      ELSE "filter is not a valid Go regular expression"]
    /\ UNCHANGED <<filterMutex, filterCache, analyseVars, defineVars>>
    /\ UNCHANGED <<cliVars, buildVars, linkVars, renameVars, amdVars>>

\* filterMutex.Lock() ahead of the write.
FilterLockWrite(i) ==
    /\ fcalls[i].pc = "store"
    /\ filterMutex = 0
    /\ filterMutex' = i
    /\ fcalls' = [fcalls EXCEPT ![i].pc = "write"]
    /\ UNCHANGED <<filterCache, analyseVars, defineVars>>
    /\ UNCHANGED <<cliVars, buildVars, linkVars, renameVars, amdVars>>

\* The cache is made when there is none, and the expression is put in.
FilterWrite(i) ==
    /\ fcalls[i].pc = "write"
    /\ filterCache' = Ref((fcalls[i].filter :> fcalls[i].result)
                          @@ (IF filterCache = NIL THEN <<>> ELSE filterCache[1]))
    /\ fcalls' = [fcalls EXCEPT ![i].pc = "write unlock"]
    /\ UNCHANGED <<filterMutex, analyseVars, defineVars>>
    /\ UNCHANGED <<cliVars, buildVars, linkVars, renameVars, amdVars>>

\* The deferred filterMutex.Unlock() at the return.
FilterUnlockWrite(i) ==
    /\ fcalls[i].pc = "write unlock"
    /\ filterMutex' = 0
    /\ fcalls' = [fcalls EXCEPT ![i].pc = "done"]
    /\ UNCHANGED <<filterCache, analyseVars, defineVars>>
    /\ UNCHANGED <<cliVars, buildVars, linkVars, renameVars, amdVars>>

\* The number of calls in flight.
MaxFilterCalls == 3

\* The process has compiled no filter yet.
InitFilter ==
    /\ CliIdle
    /\ BuildIdle
    /\ LinkIdle
    /\ RenameIdle
    /\ AmdIdle
    /\ AnalyseIdle
    /\ DefineIdle
    /\ filterMutex = 0
    /\ filterCache = NIL
    /\ fcalls \in {[i \in 1..Len(s) |-> FilterCall(s[i])] :
                      s \in SeqsUpTo(Filters, MaxFilterCalls)}

NextFilter ==
    \E i \in 1..Len(fcalls) :
        \/ FilterStart(i)
        \/ FilterLockRead(i)
        \/ FilterRead(i)
        \/ FilterUnlockRead(i)
        \/ FilterCompile(i)
        \/ FilterLockWrite(i)
        \/ FilterWrite(i)
        \/ FilterUnlockWrite(i)

SpecFilter == InitFilter /\ [][NextFilter]_vars

\* ---- the bundler on the import-star bundles -----------------------------------------
InitLink ==
    /\ CliIdle
    /\ BuildIdle
    /\ lscn \in Bundles
    /\ lpc = "scan"
    /\ lpending = Range(EntryPaths(lscn))
    /\ lscanned = {}
    /\ lorder = <<>>
    /\ lwrapped = {}
    /\ lnsobjs = {}
    /\ lids = <<>>
    /\ lout = <<>>
    /\ RenameIdle
    /\ AmdIdle
    /\ ExtIdle

NextLink ==
    \/ \E path \in Range(SortedPaths) : ParseFile(path)
    \/ ClassifyModules
    \/ AssignIds
    \/ \E entry \in Range(SortedPaths) : GenerateChunk(entry)
    \/ LinkDone

SpecLink == InitLink /\ [][NextLink]_vars

\* ---- internal/renamer: names of the top-level symbols of one chunk -------------
\* The most top-level symbols a chunk of the model has.
MaxSymbols == 4

\* The names the symbols have in their files.
OrigNames == {"foo", "foo2", "require_test"}

\* name followed by the first number from k on that gives a name not taken.
RECURSIVE Suffixed(_, _, _)
Suffixed(name, taken, k) ==
    IF name \o ToString(k) \notin taken THEN name \o ToString(k)
    ELSE Suffixed(name, taken, k + 1)

\* A renamer that tries the suffix 2 and nothing after it.
FirstSuffixOnly(name, taken) == IF name \in taken THEN name \o ToString(2) ELSE name

\* The name a symbol is printed under, given the names taken in the chunk.
PickName(name, taken) == IF name \in taken THEN Suffixed(name, taken, 2) ELSE name

\* The next symbol of the chunk gets its name.
RenameSymbol ==
    /\ Len(rnames) < Len(rsyms)
    /\ rnames' = Append(rnames, PickName(rsyms[Len(rnames) + 1], Range(rnames)))
    /\ UNCHANGED <<rsyms, amdVars, extVars>>
    /\ UNCHANGED <<cliVars, buildVars, linkVars>>

InitRename ==
    /\ CliIdle
    /\ BuildIdle
    /\ LinkIdle
    /\ AmdIdle
    /\ ExtIdle
    /\ rsyms \in SeqsUpTo(OrigNames, MaxSymbols)
    /\ rnames = <<>>

NextRename == RenameSymbol

SpecRename == InitRename /\ [][NextRename]_vars

\* ---- internal/config: paths as the AMD options handle them ---------------------
\* A path is the sequence of its "/"-separated segments; the empty string is
\* the empty sequence.  A specifier is the sequence of its "!"-separated
\* parts, each a path.

\* The segment names of the model without a file extension.
Stems == {"foo", "foo2", "bar", "bar2", "baz", "lib", "a", "b", "dep", "depA",
          "depStar", "star", "app", "main", "other", "nls", "i18n", "base",
          "text", "css", "x", "tpl"}

\* The file extensions of the model.
Extensions == {".js", ".json", ".txt", ".css"}

\* filepath.Ext of a path: the extension of its last segment.
Ext(path) ==
    IF path = <<>> THEN ""
    ELSE LET last == path[Len(path)]
         IN IF \E e \in Extensions : \E b \in Stems : last = b \o e
            THEN CHOOSE e \in Extensions : \E b \in Stems : last = b \o e
            ELSE ""

\* path + extension
WithExtension(path, e) ==
    IF path = <<>> THEN <<e>>
    ELSE [path EXCEPT ![Len(path)] = path[Len(path)] \o e]

\* "if strings.HasSuffix(mappedSource, ".js") { mappedSource = mappedSource[:len-3] }"
TrimJs(path) ==
    IF Ext(path) = ".js"
    THEN [path EXCEPT ![Len(path)] = CHOOSE b \in Stems : path[Len(path)] = b \o ".js"]
    ELSE path

\* filepath.Clean of a relative path, segment by segment from i on, done
\* being the cleaned segments so far.
RECURSIVE CleanFrom(_, _, _)
CleanFrom(path, i, done) ==
    IF i > Len(path) THEN (IF done = <<>> THEN <<".">> ELSE done)
    ELSE IF path[i] = "." THEN CleanFrom(path, i + 1, done)
    ELSE IF path[i] = ".." /\ done # <<>> /\ done[Len(done)] # ".."
    THEN CleanFrom(path, i + 1, SubSeq(done, 1, Len(done) - 1))
    ELSE CleanFrom(path, i + 1, Append(done, path[i]))

\* filepath.Join(a, b): empty elements are ignored, the result is cleaned.
Join(a, b) == IF a = <<>> /\ b = <<>> THEN <<>> ELSE CleanFrom(a \o b, 1, <<>>)

\* The length of the longest common prefix of two paths, from k on.
RECURSIVE CommonFrom(_, _, _)
CommonFrom(a, b, k) ==
    IF k < Len(a) /\ k < Len(b) /\ a[k + 1] = b[k + 1] THEN CommonFrom(a, b, k + 1)
    ELSE k

\* filepath.Rel(base, target) of two cleaned absolute paths.
Rel(base, target) ==
    LET k == CommonFrom(base, target, 0)
        up == [i \in 1..(Len(base) - k) |-> ".."]
        rest == SubSeq(target, k + 1, Len(target))
    IN IF up \o rest = <<>> THEN <<".">> ELSE up \o rest

\* filepath.Dir of an absolute path with more than one segment.
DirOf(path) == SubSeq(path, 1, Len(path) - 1)

\* m[key] of a Go map of strings: the empty string without the key.
Lookup(m, key) == IF key \in DOMAIN m THEN m[key] ELSE <<>>

\* ---- internal/config: AMDOptions -------------------------------------------------
\* What a call yields instead of a path when it slices a string beyond its
\* end or reads a field of a nil plugin.
SliceFault == <<"<slice bounds out of range>">>
NilFault == <<"<nil pointer dereference>">>
Faults == {SliceFault, NilFault}

\* The loop of mapSegmentedPath with parentPath being the first separator
\* segments of importPath.
RECURSIVE MapFrom(_, _, _)
MapFrom(importPath, paths, separator) ==
    LET targetPath == Lookup(paths, SubSeq(importPath, 1, separator))
        rest == SubSeq(importPath, separator + 1, Len(importPath))
    IN IF targetPath # <<>>
       THEN (IF targetPath = <<".">>
             THEN (IF separator = Len(importPath) THEN SliceFault ELSE rest)
             ELSE Join(targetPath, rest))
       ELSE IF separator <= 1 THEN <<>>
       ELSE MapFrom(importPath, paths, separator - 1)

\* mapSegmentedPath
mapSegmentedPath(importPath, paths) ==
    IF DOMAIN paths # {} THEN MapFrom(importPath, paths, Len(importPath)) ELSE <<>>

\* AMDOptions.HasKnownFileExtension
HasKnownFileExtension(options, sourcePath) ==
    Ext(sourcePath) \in options.KnownFileExtensions

\* AMDOptions.ModulePathToName, reading the reverse map as it is.
ModulePathToName(options, backward, sourcePath) ==
    Lookup(backward, Rel(options.BaseUrl, sourcePath))

\* The first lines of ModuleNameToPath: the module name of the importer.
MappedSource(options, backward, sourcePath) ==
    LET name == ModulePathToName(options, backward, sourcePath)
    IN IF name # <<>> THEN name ELSE TrimJs(Rel(options.BaseUrl, sourcePath))

\* The path with ".js" unless its extension is known.
WithJs(options, path) ==
    IF HasKnownFileExtension(options, path) THEN path ELSE WithExtension(path, ".js")

\* One invocation of mapSegmentedPath: what it got and what it gave.
Step(importPath, paths) ==
    [importPath |-> importPath, paths |-> paths,
     result |-> mapSegmentedPath(importPath, paths)]

\* "scope := options.Map[mappedSource]": nil without the key.
Scope(options, mappedSource) ==
    IF mappedSource \in DOMAIN options.Map THEN Ref(options.Map[mappedSource]) ELSE NIL

\* The body of ModuleNameToPath behind mappedSource, the two scopes being
\* looked into in the order given: the first scope unless it is nil, the
\* second when the first gave nothing, then the paths on what the scopes gave
\* or on importPath; targetPath falls back to mappedPath, gets ".js" unless
\* its extension is known and is recorded in backwardPaths.  A fault of
\* mapSegmentedPath ends it.
NameToPathVia(options, importPath, scopes) ==
    LET first == IF scopes[1] # NIL THEN <<Step(importPath, scopes[1][1])>> ELSE <<>>
        firstPath == IF first # <<>> THEN first[1].result ELSE <<>>
        second == IF firstPath = <<>> /\ scopes[2] # NIL
                  THEN <<Step(importPath, scopes[2][1])>> ELSE <<>>
        mappedPath == IF firstPath # <<>> THEN firstPath
                      ELSE IF second # <<>> THEN second[1].result ELSE <<>>
        inputPath == IF mappedPath # <<>> THEN mappedPath ELSE importPath
        third == Step(inputPath, options.Paths)
        targetPath == IF third.result # <<>> THEN third.result ELSE mappedPath
    IN IF mappedPath \in Faults
       THEN [path |-> mappedPath, recorded |-> FALSE, steps |-> first \o second]
       ELSE IF third.result \in Faults
       THEN [path |-> third.result, recorded |-> FALSE,
             steps |-> first \o second \o <<third>>]
       ELSE IF targetPath # <<>>
       THEN [path |-> WithJs(options, targetPath), recorded |-> TRUE,
             steps |-> first \o second \o <<third>>]
       ELSE [path |-> <<>>, recorded |-> FALSE,
             steps |-> first \o second \o <<third>>]

\* A ModuleNameToPath that looks into the "*" scope before the importer's.
NameToPathStarFirst(options, importPath, mappedSource) ==
    NameToPathVia(options, importPath,
                  <<Ref(options.StarMap), Scope(options, mappedSource)>>)

\* ModuleNameToPath behind mappedSource: the scope of the importer, then "*".
NameToPath(options, importPath, mappedSource) ==
    NameToPathVia(options, importPath,
                  <<Scope(options, mappedSource), Ref(options.StarMap)>>)

\* AMDOptions.UsesPlugin: the specifier holds a "!".
UsesPlugin(importPath) == Len(importPath) > 1

\* AMDOptions.ParsePluginExpression
ParsePluginExpression(options, importPath) ==
    IF Len(importPath) > 1 /\ importPath[1] # <<>>
       /\ importPath[1] \in DOMAIN options.Plugins
    THEN <<importPath[1], importPath[2], TRUE>>
    ELSE <<<<>>, <<>>, FALSE>>

\* regexp.ReplaceAllString for a pattern that is one stem: every segment
\* that is the stem, with or without an extension, gets the value for it.
ReplaceAllString(script, path) ==
    [i \in 1..Len(path) |->
        IF path[i] = script.ReplacementPattern THEN script.ReplacementValue
        ELSE IF \E e \in Extensions : path[i] = script.ReplacementPattern \o e
        THEN script.ReplacementValue
             \o (CHOOSE e \in Extensions : path[i] = script.ReplacementPattern \o e)
        ELSE path[i]]

\* PluginExpressionToModulePath up to its ModuleNameToPath call: the resource
\* with the extension appended and the script replacement applied, or the
\* fault of slicing without a "!", of a nil plugin or of an empty
\* FileExtensions.
PluginResource(options, importPath) ==
    IF Len(importPath) < 2 THEN SliceFault
    ELSE IF importPath[1] \notin DOMAIN options.Plugins THEN NilFault
    ELSE LET plugin == options.Plugins[importPath[1]]
             appended == IF plugin.AppendFileExtension
                         THEN WithExtension(importPath[2], plugin.FileExtensions[1])
                         ELSE importPath[2]
         IN IF plugin.AppendFileExtension /\ plugin.FileExtensions = <<>>
            THEN SliceFault
            ELSE IF plugin.LoadScript # NIL
            THEN ReplaceAllString(plugin.LoadScript[1], appended)
            ELSE appended

\* PluginExpressionToModulePath behind its ModuleNameToPath call: the key
\* under which the plugin expression is kept.
PluginModulePath(options, importPath, mapped, sourcePath) ==
    LET modulePath == IF mapped = <<>> THEN WithJs(options, importPath) ELSE mapped
    IN IF modulePath # <<>> /\ modulePath[1] \in {".", ".."}
       THEN Rel(options.BaseUrl, Join(DirOf(sourcePath), modulePath))
       ELSE modulePath

\* strings.HasPrefix(targetPath, "empty:") over the path values of the model.
HasEmptyPrefix(targetPath) == targetPath[1] \in {"empty:", "empty:cdn"}

\* The loop of IsExternalModule with parentPath being the first separator
\* segments of importPath.
RECURSIVE ExternalFrom(_, _, _)
ExternalFrom(importPath, paths, separator) ==
    LET targetPath == Lookup(paths, SubSeq(importPath, 1, separator))
    IN IF targetPath # <<>> THEN HasEmptyPrefix(targetPath)
       ELSE IF separator <= 1 THEN FALSE
       ELSE ExternalFrom(importPath, paths, separator - 1)

\* AMDOptions.IsExternalModule: what it returns, or the fault of its call of
\* mapSegmentedPath.
IsExternalModule(options, importPath) ==
    LET mappedPath == mapSegmentedPath(importPath, options.StarMap)
        path == IF mappedPath # <<>> THEN mappedPath ELSE importPath
    IN IF mappedPath \in Faults THEN [fault |-> mappedPath, external |-> FALSE]
       ELSE [fault |-> <<>>,
             external |-> IF DOMAIN options.Paths # {}
                          THEN ExternalFrom(path, options.Paths, Len(path))
                          ELSE FALSE]

\* AMDOptions.Init(baseUrl)
AMDOptionsInit(baseUrl) ==
    [BaseUrl |-> baseUrl, Paths |-> <<>>, Map |-> <<>>, StarMap |-> <<>>,
     Plugins |->
        (<<"json">> :> [FileExtensions |-> <<".json">>, AppendFileExtension |-> FALSE,
                        LoadScript |-> NIL])
        @@ (<<"text">> :> [FileExtensions |-> <<".txt">>, AppendFileExtension |-> FALSE,
                           LoadScript |-> NIL])
        @@ (<<"css">> :> [FileExtensions |-> <<".css">>, AppendFileExtension |-> TRUE,
                          LoadScript |-> NIL]),
     KnownFileExtensions |-> {".js", ".json", ".txt", ".css"}]

\* The known extensions parseAMDConfig leaves for a "plugins" object.
KnownOf(plugins) ==
    {".js"} \cup UNION {Range(plugins[k].FileExtensions) : k \in DOMAIN plugins}

\* parseAMDConfig, lines 789-858, over the properties of a "plugins" object
\* from the i-th on: a plugin that is no object ends the parse with an error.
RECURSIVE ParsePluginsFrom(_, _, _)
ParsePluginsFrom(result, props, i) ==
    IF i > Len(props) THEN [ok |-> TRUE, options |-> result]
    ELSE IF ~props[i].value.object THEN [ok |-> FALSE, options |-> result]
    ELSE LET v == props[i].value
             plugin == [FileExtensions |-> IF v.fileExtensions = NIL THEN <<>>
                                           ELSE v.fileExtensions[1],
                        AppendFileExtension |-> IF v.appendFileExtension = NIL THEN FALSE
                                                ELSE v.appendFileExtension[1],
                        LoadScript |-> v.loadScript]
         IN ParsePluginsFrom(
                [result EXCEPT !.Plugins = (props[i].key :> plugin) @@ @,
                               !.KnownFileExtensions = @ \cup Range(plugin.FileExtensions)],
                props, i + 1)

\* A parse of "plugins" that adds to the plugins it finds.
ParsePluginsMerging(result, plugins) ==
    IF plugins = NIL THEN [ok |-> TRUE, options |-> result]
    ELSE IF ~plugins[1].object THEN [ok |-> FALSE, options |-> result]
    ELSE ParsePluginsFrom(result, plugins[1].properties, 1)

\* parseAMDConfig, lines 784-864: with a "plugins" object the plugins and the
\* known extensions start anew, with ".js" alone.
ParsePlugins(result, plugins) ==
    IF plugins = NIL THEN [ok |-> TRUE, options |-> result]
    ELSE IF ~plugins[1].object THEN [ok |-> FALSE, options |-> result]
    ELSE ParsePluginsFrom([result EXCEPT !.Plugins = <<>>,
                                         !.KnownFileExtensions = {".js"}],
                          plugins[1].properties, 1)

\* parseAMDConfig on the options Init left and a configuration file: whether
\* it succeeded, and the options as it leaves them.  fs.Abs puts a relative
\* "baseUrl" below the working directory, which is what Init was given, or
\* fails (abs is FALSE), and then parseAMDConfig returns at once (lines
\* 700-703).
parseAMDConfig(result, doc, abs) ==
    IF ~doc.readable THEN [ok |-> FALSE, options |-> result]
    ELSE IF doc.baseUrl # NIL /\ ~abs THEN [ok |-> FALSE, options |-> result]
    ELSE ParsePlugins([result EXCEPT
                          !.BaseUrl = IF doc.baseUrl = NIL THEN @ ELSE @ \o doc.baseUrl[1],
                          !.Paths = doc.paths @@ @,
                          !.Map = doc.map @@ @,
                          !.StarMap = doc.star @@ @],
                      doc.plugins)

\* The base URL of the projects.
BaseUrl == <<"base">>

\* The "paths" of the doc comment of ModuleNameToPath.
DocPaths ==
    (<<"foo">> :> <<"foo2">>) @@ (<<"foo", "bar">> :> <<"foo", "bar2">>)

\* A "map" with a scope of the module main and a "*" scope for the same
\* import, and "paths" for what either gives.
ScopedMap == <<"main">> :> (<<"dep">> :> <<"depA">>)
ScopedStar == <<"dep">> :> <<"depStar">>
ScopedPaths ==
    (<<"depA">> :> <<"lib", "a">>) @@ (<<"depStar">> :> <<"lib", "star">>)

\* "paths" that put a folder at the base URL, as in the README.
DotPaths == <<"app">> :> <<".">>

\* "paths" with two names for one folder.
TwoNamesPaths == (<<"a">> :> <<"lib">>) @@ (<<"b">> :> <<"lib">>)

\* "plugins" with a plugin that appends an extension and lists none, and a
\* plugin with a script replacement.
CustomPlugins ==
    (<<"x">> :> [FileExtensions |-> <<>>, AppendFileExtension |-> TRUE,
                 LoadScript |-> NIL])
    @@ (<<"i18n">> :> [FileExtensions |-> <<".js">>, AppendFileExtension |-> FALSE,
                       LoadScript |-> Ref([ReplacementPattern |-> "i18n",
                                           ReplacementValue |-> "nls"])])

\* The "paths" and the "*" scope of the "map" of the README.
ReadmePaths == (<<"external">> :> <<"empty:">>) @@ (<<"internal">> :> <<".">>)
ReadmeStar == <<"external", "libs", "jquery">> :> <<"internal", "libs", "jquery">>

\* The options parseAMDConfig leaves for the configuration files of the model.
AmdConfigs ==
    { AMDOptionsInit(BaseUrl),
      [AMDOptionsInit(BaseUrl) EXCEPT !.Paths = DocPaths],
      [AMDOptionsInit(BaseUrl) EXCEPT !.Map = ScopedMap, !.StarMap = ScopedStar,
                                      !.Paths = ScopedPaths],
      [AMDOptionsInit(BaseUrl) EXCEPT !.Paths = DotPaths],
      [AMDOptionsInit(BaseUrl) EXCEPT !.Paths = TwoNamesPaths],
      [AMDOptionsInit(BaseUrl) EXCEPT !.Paths = ReadmePaths, !.StarMap = ReadmeStar],
      [AMDOptionsInit(BaseUrl) EXCEPT !.Plugins = CustomPlugins,
                                      !.KnownFileExtensions = KnownOf(CustomPlugins)] }

\* The importing files of the model.
MainJs == <<"base", "main.js">>
OtherJs == <<"base", "other.js">>

\* A call of ModuleNameToPath ("name"), PluginExpressionToModulePath
\* ("plugin"), ParsePluginExpression ("parse") or IsExternalModule
\* ("external") that has not started.
Call(kind, importPath, sourcePath) ==
    [kind |-> kind, importPath |-> importPath, sourcePath |-> sourcePath,
     pc |-> "start", resource |-> <<>>, mappedSource |-> <<>>, steps |-> <<>>,
     modulePath |-> <<>>, result |-> <<>>, external |-> FALSE, moduleName |-> ""]

\* A call of PluginExpressionToModulePath with its moduleName argument.
PluginCall(importPath, moduleName, sourcePath) ==
    [Call("plugin", importPath, sourcePath) EXCEPT !.moduleName = moduleName]

\* The calls of the model.
AmdCalls ==
    { Call("name", <<<<"foo", "baz">>>>, MainJs),
      Call("name", <<<<"foo", "bar", "baz">>>>, MainJs),
      Call("name", <<<<"dep">>>>, MainJs),
      Call("name", <<<<"dep">>>>, OtherJs),
      Call("name", <<<<"app">>>>, MainJs),
      Call("name", <<<<"app", "foo">>>>, MainJs),
      Call("name", <<<<"a">>>>, MainJs),
      Call("name", <<<<"b">>>>, MainJs),
      Call("name", <<<<"internal">>>>, MainJs),
      PluginCall(<<<<"css">>, <<"foo">>>>, "css!foo", MainJs),
      PluginCall(<<<<"x">>, <<"a">>>>, "x!a", MainJs),
      PluginCall(<<<<"i18n">>, <<"i18n", "foo">>>>, "i18n!i18n/foo", MainJs),
      Call("parse", <<<<"css">>, <<"foo">>>>, MainJs),
      Call("parse", <<<<>>, <<"foo">>>>, MainJs) }

\* "paths" with a folder below an external one, and with a module of a CDN.
NestedPaths ==
    (<<"external">> :> <<"empty:">>) @@ (<<"external", "local">> :> <<"lib">>)
    @@ (<<"cdn">> :> <<"empty:cdn", "x">>)

\* A "*" scope that maps a module to ".".
DotStar == <<"app">> :> <<".">>

\* The options of the calls of IsExternalModule.
ExternalConfigs ==
    { AMDOptionsInit(BaseUrl),
      [AMDOptionsInit(BaseUrl) EXCEPT !.StarMap = ReadmeStar],
      [AMDOptionsInit(BaseUrl) EXCEPT !.Paths = ReadmePaths, !.StarMap = ReadmeStar],
      [AMDOptionsInit(BaseUrl) EXCEPT !.Paths = NestedPaths],
      [AMDOptionsInit(BaseUrl) EXCEPT !.Paths = ReadmePaths, !.StarMap = DotStar] }

\* The calls of IsExternalModule.
ExternalCalls ==
    { Call("external", <<<<"external", "x">>>>, MainJs),
      Call("external", <<<<"external", "libs", "jquery">>>>, MainJs),
      Call("external", <<<<"external", "local", "y">>>>, MainJs),
      Call("external", <<<<"internal", "a">>>>, MainJs),
      Call("external", <<<<"cdn">>>>, MainJs),
      Call("external", <<<<"other">>>>, MainJs),
      Call("external", <<<<"app">>>>, MainJs) }

\* The number of calls in flight.
MaxCalls == 2

\* PluginExpressionToModulePath up to its call of ModuleNameToPath.
PluginStart(i) ==
    /\ acalls[i].kind = "plugin"
    /\ acalls[i].pc = "start"
    /\ LET resource == PluginResource(amdOptions[1], acalls[i].importPath)
       IN acalls' = [acalls EXCEPT ![i].resource = resource,
                                   ![i].pc = IF resource \in Faults THEN "panic"
                                             ELSE "call"]
    /\ UNCHANGED <<amdJson, amdOptions, backwardPaths, pluginExpressions, renameVars, extVars>>
    /\ UNCHANGED <<cliVars, buildVars, linkVars>>

\* The import path a call is in ModuleNameToPath with.
NameArgument(call) ==
    IF call.kind = "plugin" THEN call.resource ELSE call.importPath[1]

\* ModuleNameToPath up to the end of its read of backwardPaths.
NameToPathEnter(i) ==
    /\ \/ acalls[i].kind = "name" /\ acalls[i].pc = "start"
       \/ acalls[i].kind = "plugin" /\ acalls[i].pc = "call"
    /\ acalls' = [acalls EXCEPT
           ![i].mappedSource = MappedSource(amdOptions[1], backwardPaths,
                                            acalls[i].sourcePath),
           ![i].pc = "entered"]
    /\ UNCHANGED <<amdJson, amdOptions, backwardPaths, pluginExpressions, renameVars, extVars>>
    /\ UNCHANGED <<cliVars, buildVars, linkVars>>

\* The rest of ModuleNameToPath: the mapping and the write to backwardPaths.
NameToPathReturn(i) ==
    /\ acalls[i].pc = "entered"
    /\ LET importPath == NameArgument(acalls[i])
           r == NameToPath(amdOptions[1], importPath, acalls[i].mappedSource)
       IN /\ acalls' = [acalls EXCEPT
                 ![i].steps = r.steps,
                 ![i].result = r.path,
                 ![i].pc = IF r.path \in Faults THEN "panic"
                           ELSE IF acalls[i].kind = "plugin" THEN "mapped"
                           ELSE "done"]
          /\ backwardPaths' = IF r.recorded
                              THEN (r.path :> importPath) @@ backwardPaths
                              ELSE backwardPaths
    /\ UNCHANGED <<amdJson, amdOptions, pluginExpressions, renameVars, extVars>>
    /\ UNCHANGED <<cliVars, buildVars, linkVars>>

\* The rest of PluginExpressionToModulePath: moduleName is kept under the
\* module path and the resource is returned.
PluginReturn(i) ==
    /\ acalls[i].kind = "plugin"
    /\ acalls[i].pc = "mapped"
    /\ LET modulePath == PluginModulePath(amdOptions[1], acalls[i].resource,
                                          acalls[i].result, acalls[i].sourcePath)
       IN /\ acalls' = [acalls EXCEPT ![i].modulePath = modulePath,
                                      ![i].result = acalls[i].resource,
                                      ![i].pc = "done"]
          /\ pluginExpressions' =
                 (modulePath :> acalls[i].moduleName) @@ pluginExpressions
    /\ UNCHANGED <<amdJson, amdOptions, backwardPaths, renameVars, extVars>>
    /\ UNCHANGED <<cliVars, buildVars, linkVars>>

\* ParsePluginExpression
ParsePlugin(i) ==
    /\ acalls[i].kind = "parse"
    /\ acalls[i].pc = "start"
    /\ acalls' = [acalls EXCEPT
           ![i].result = ParsePluginExpression(amdOptions[1], acalls[i].importPath),
           ![i].pc = "done"]
    /\ UNCHANGED <<amdJson, amdOptions, backwardPaths, pluginExpressions, renameVars, extVars>>
    /\ UNCHANGED <<cliVars, buildVars, linkVars>>

\* AMDOptions.IsExternalModule
ExternalModule(i) ==
    /\ acalls[i].kind = "external"
    /\ acalls[i].pc = "start"
    /\ LET r == IsExternalModule(amdOptions[1], acalls[i].importPath[1])
       IN acalls' = [acalls EXCEPT ![i].result = r.fault,
                                   ![i].external = r.external,
                                   ![i].pc = IF r.fault \in Faults THEN "panic"
                                             ELSE "done"]
    /\ UNCHANGED <<amdJson, amdOptions, backwardPaths, pluginExpressions, renameVars, extVars>>
    /\ UNCHANGED <<cliVars, buildVars, linkVars>>

\* A property of the "plugins" object of a configuration file.
PluginProperty(key, fileExtensions, appendFileExtension, loadScript) ==
    [key |-> key,
     value |-> [object |-> TRUE, fileExtensions |-> fileExtensions,
                appendFileExtension |-> appendFileExtension,
                loadScript |-> loadScript]]

\* A configuration file, by what it holds.
Document(paths, plugins) ==
    [readable |-> TRUE, baseUrl |-> NIL, paths |-> paths, map |-> <<>>,
     star |-> <<>>, plugins |-> plugins]

\* The "plugins" of the README: json and css as Init has them, and i18n.
ReadmePlugins ==
    <<PluginProperty(<<"json">>, Ref(<<".json">>), NIL, NIL),
      PluginProperty(<<"css">>, Ref(<<".css">>), Ref(TRUE), NIL),
      PluginProperty(<<"i18n">>, Ref(<<".js">>), NIL,
                     Ref([ReplacementPattern |-> "/nls/",
                          ReplacementValue |-> "/nls/root/"]))>>

\* The configuration files of the model: one that cannot be read or parsed,
\* files without "plugins", and files whose "plugins" is an empty object, the
\* object of the README, an object with a plugin of two extensions, an object
\* with a plugin that is no object, and a string.
AmdDocuments ==
    { [Document(<<>>, NIL) EXCEPT !.readable = FALSE],
      Document(<<>>, NIL),
      [Document(ReadmePaths, NIL) EXCEPT !.baseUrl = Ref(<<"src">>),
                                         !.star = ReadmeStar],
      Document(<<>>, Ref([object |-> TRUE, properties |-> <<>>])),
      [Document(ReadmePaths, Ref([object |-> TRUE, properties |-> ReadmePlugins]))
          EXCEPT !.baseUrl = Ref(<<"src">>), !.star = ReadmeStar],
      Document(<<>>, Ref([object |-> TRUE, properties |->
          <<PluginProperty(<<"tpl">>, Ref(<<".html", ".htm">>), Ref(FALSE), NIL)>>])),
      Document(<<>>, Ref([object |-> TRUE, properties |->
          <<PluginProperty(<<"tpl">>, Ref(<<".html">>), NIL, NIL),
            [key |-> <<"bad">>, value |-> [object |-> FALSE]]>>])),
      Document(<<>>, Ref([object |-> FALSE])) }

\* buildImpl and analyseImpl: parseAMDConfig on the options of Init.
ParseAMDConfig ==
    /\ amdJson # NIL
    /\ amdJson[1].state = "pending"
    /\ \E abs \in BOOLEAN :
          LET r == parseAMDConfig(amdOptions[1], amdJson[1].doc, abs)
          IN /\ amdOptions' = Ref(r.options)
             /\ amdJson' = Ref([amdJson[1] EXCEPT !.state = IF r.ok THEN "parsed"
                                                            ELSE "failed"])
    /\ UNCHANGED <<backwardPaths, pluginExpressions, acalls, renameVars, extVars>>
    /\ UNCHANGED <<cliVars, buildVars, linkVars>>

\* The options are those of a configuration file that was parsed, with the
\* calls of the resolvers or the calls of IsExternalModule on them, or those
\* of Init with a configuration file to parse.
InitAmd ==
    /\ CliIdle
    /\ BuildIdle
    /\ LinkIdle
    /\ RenameIdle
    /\ ExtIdle
    /\ backwardPaths = <<>>
    /\ pluginExpressions = <<>>
    /\ \/ /\ amdJson = NIL
          /\ amdOptions \in {Ref(o) : o \in AmdConfigs}
          /\ acalls \in SeqsUpTo(AmdCalls, MaxCalls)
       \/ /\ amdJson = NIL
          /\ amdOptions \in {Ref(o) : o \in ExternalConfigs}
          /\ acalls \in SeqsUpTo(ExternalCalls, MaxCalls)
       \/ /\ amdJson \in {Ref([doc |-> d, state |-> "pending"]) : d \in AmdDocuments}
          /\ amdOptions = Ref(AMDOptionsInit(BaseUrl))
          /\ acalls = <<>>

NextAmd ==
    \/ \E i \in 1..Len(acalls) :
          \/ PluginStart(i)
          \/ NameToPathEnter(i)
          \/ NameToPathReturn(i)
          \/ PluginReturn(i)
          \/ ParsePlugin(i)
          \/ ExternalModule(i)
    \/ ParseAMDConfig

SpecAmd == InitAmd /\ [][NextAmd]_vars

\* ==== properties ====================================================================
\* ---- runImpl's exit code -------------------------------------------------------------
\* runImpl saw an error: parsing failed, stdin could not be read, or the
\* result of the API call holds an error.
SawError == parseErr # "" \/ stdinRead = "failed" \/ apiErrors > 0

\* C1 -- Whenever runImpl returns, it returns 1 if option parsing failed, stdin
\* could not be read or the Build/Transform/Analyse result holds an error, and
\* it returns 0 only if none of these happened.  The one run that saw an error
\* and did not return at once is the build in watch mode, which never returns.
C1_ExitCodeOnReturn ==
    /\ SawError /\ cpc # "blocked" => cpc = "returned" /\ exitCode = 1
    /\ exitCode = 0 => cpc = "returned" /\ ~SawError
    /\ cpc = "returned" => exitCode \in {0, 1}

\* C1, witness: a build that is not in watch mode returned 1 because its
\* result held an error.
C1_BuildErrorsGiveOne ==
    /\ cpc = "returned"
    /\ exitCode = 1
    /\ pcmd = "build"
    /\ apiErrors > 0
    /\ parseErr = ""

\* C1 as stated: every run that saw an error has returned 1.  In watch mode a
\* build whose result holds errors blocks instead.
C1_AsStated == SawError => cpc = "returned" /\ exitCode = 1

\* ---- buildImpl's configuration errors ----------------------------------------------
\* The messages of buildImpl's option validation, lines 518-582.
ConfigErrorTexts ==
    {"Must use \"outdir\" when there are multiple input files",
     "Must use \"outdir\" when code splitting is enabled",
     "Cannot use both \"outfile\" and \"outdir\"",
     "Cannot use an external source map without an output path",
     "Cannot use \"metafile\" without an output path",
     "Splitting currently only works with the \"esm\" format"}

\* The positions of the configuration errors in the log.
ConfigErrorsAt == {i \in 1..Len(blog) : blog[i].Text \in ConfigErrorTexts}

\* The work done by the stages behind the validation.
PipelineOps == {"ScanBundle", "Compile", "Stdout.Write", "MkdirAll", "WriteFile"}

\* C2 -- When buildImpl's option validation logs a configuration error,
\* ScanBundle, Compile and the output writes never run and OutputFiles is
\* empty; the only file work there can be is the one read of the AMD
\* configuration file, which parseAMDConfig does whatever was logged before it.
C2_ConfigErrorStopsPipeline ==
    ConfigErrorsAt # {} =>
        /\ \A k \in 1..Len(bio) : bio[k].op = "ReadFile"
        /\ Len(bio) <= 1
        /\ bio # <<>> => bopts[1].AMDConfig # ""
        /\ boutputFiles = <<>>
        /\ bpc \in {"collect", "done"}
        /\ bresult # NIL => bresult[1].OutputFiles = <<>>

\* C2, witness: buildImpl returned after a configuration error, with the AMD
\* configuration file read and nothing else done.
C2_StoppedAfterConfigError ==
    /\ bresult # NIL
    /\ ConfigErrorsAt # {}
    /\ Len(bio) = 1
    /\ bresult[1].Errors # <<>>

\* C2 as stated: the configuration error is in the log before any file is
\* read or written.  The AMD configuration file is read before the splitting
\* check logs its error.
C2_AsStated ==
    ConfigErrorsAt # {} =>
        \A k \in 1..Len(bio) : \E i \in ConfigErrorsAt : i <= bio[k].logged

\* ---- buildImpl's stages ---------------------------------------------------------------
\* The stage a piece of work belongs to: 0 validate, 1 scan, 2 compile, 3 write.
StageOf(op) ==
    IF op = "ReadFile" THEN 0
    ELSE IF op = "ScanBundle" THEN 1
    ELSE IF op = "Compile" THEN 2
    ELSE 3

\* The stage a message of the log came from.
StageOfMsg(msg) ==
    IF msg.Text \in {"scan error", "scan warning"} THEN 1
    ELSE IF msg.Text \in {"compile error", "compile warning"} THEN 2
    ELSE IF msg.Text \in {"Failed to write to stdout",
                          "Failed to create output directory",
                          "Failed to write to output file"}
                         \cup {"Internal error: did not expect to generate " \o ToString(n)
                                   \o " files when writing to stdout" : n \in 0..MaxResults}
    THEN 3
    ELSE 0

\* C3 -- buildImpl runs its stages in the order validate, scan, compile, write;
\* a stage runs only if no earlier stage logged an error; and the Errors and
\* Warnings it returns hold every message logged, wherever it stopped.
C3_StagesInOrder ==
    /\ \A k, m \in 1..Len(bio) : k < m => StageOf(bio[k].op) <= StageOf(bio[m].op)
    /\ \A k \in 1..Len(bio) : \A i \in 1..bio[k].logged :
          blog[i].Kind = "error" => StageOfMsg(blog[i]) >= StageOf(bio[k].op)
    /\ \A k \in 1..Len(bio) :
          StageOf(bio[k].op) \in {1, 2} =>
             \A i \in 1..bio[k].logged : blog[i].Kind # "error"
    /\ bresult # NIL =>
          /\ Len(bresult[1].Errors) + Len(bresult[1].Warnings) = Len(blog)
          /\ \A i \in 1..Len(blog) :
                \/ blog[i].Kind = "error"
                   /\ \E j \in 1..Len(bresult[1].Errors) : bresult[1].Errors[j] = blog[i].Text
                \/ blog[i].Kind = "warning"
                   /\ \E j \in 1..Len(bresult[1].Warnings) :
                         bresult[1].Warnings[j] = blog[i].Text

\* C3, witness: the scan logged a warning and Compile an error, so nothing was
\* written, and buildImpl returned both messages.
C3_StoppedAtCompile ==
    /\ bresult # NIL
    /\ \E k \in 1..Len(bio) : bio[k].op = "Compile"
    /\ \A k \in 1..Len(bio) : StageOf(bio[k].op) < 3
    /\ bresult[1].Errors = <<"compile error">>
    /\ bresult[1].Warnings = <<"scan warning">>

\* ---- the umd format -------------------------------------------------------------------
\* C4 as stated -- a build asked for with the umd format passes option
\* validation: buildImpl, called with FormatUMD and a platform and a source
\* map its validators know, does not panic.
C4_AsStated ==
    /\ bopts # NIL
    /\ bopts[1].Format = "FormatUMD"
    /\ validatePlatform(bopts[1].Platform) # PANIC
    /\ validateSourceMap(bopts[1].Sourcemap) # PANIC
    => bpc # PANIC

\* ---- the command parseOptionsForRun selects ----------------------------------------
\* TRUE when arg is among the arguments.
Among(arg, args) == \E i \in 1..Len(args) : args[i] = arg

\* The command as the claim has it: analyse with "--analyse" anywhere, else
\* build with an entry point or "--bundle", else transform.
CommandByFlags(args) ==
    IF Among("--analyse", args) THEN "analyse"
    ELSE IF \E i \in 1..Len(args) : ~HasPrefix(args[i], "-") \/ args[i] = "--bundle"
    THEN "build"
    ELSE "transform"

\* C5 as stated -- parseOptionsForRun selects analyse whenever "--analyse" is
\* among the arguments, build with an entry point or "--bundle" and no
\* "--analyse", and transform otherwise.
C5_AsStated ==
    pcmd \in {"build", "analyse", "transform"} => pcmd = CommandByFlags(osArgs)

\* ---- the expected outputs of bundler_importstar_ts_test.go --------------------------
\* A chunk with every module inlined.
Inlined(entryId, body, namespaces, log) ==
    [entryId |-> entryId, wrappers |-> {}, body |-> body, namespaces |-> namespaces,
     binds |-> {}, log |-> log]

\* A chunk whose entry binds foo, a wrapped module with the given id.
Binding(entryId, entry, fooId, getters, call, log) ==
    [entryId |-> entryId,
     wrappers |-> {[id |-> fooId, path |-> FooPath, getters |-> getters]},
     body |-> <<entry>>, namespaces |-> {},
     binds |-> {[call |-> call, id |-> fooId]}, log |-> log]

NamespaceObject(m, name, symbol) ==
    [module |-> m, name |-> name, getters |-> {Getter(symbol)}]

\* The bundles the tests hold an expected output for.
TestedBundles == {scn \in Bundles : ~(scn.require /\ scn.use = "capture")}

\* The expected output of the test with the bundle scn, chunk by entry.
ExpectedChunks(scn) ==
    IF scn.require
    THEN ("/entry1.js" :> Binding(0, "/entry1.js", 2, {Getter("foo")}, "__import",
                                  <<"ns.foo">>))
         @@ ("/entry2.js" :> Binding(1, "/entry2.js", 2, {Getter("foo")}, "__require",
                                     <<"ns.foo">>))
    ELSE "/entry.ts" :>
        IF scn.use = "unused" THEN Inlined(0, <<"/entry.ts">>, {}, <<"foo">>)
        ELSE IF scn.fooKind = "cjs"
        THEN Binding(0, "/entry.ts", 1, {}, "__import",
                     IF scn.use = "capture" THEN <<"ns", "ns.foo", "foo">>
                     ELSE <<"ns.foo", "ns.foo", "foo">>)
        ELSE IF scn.graph = "star"
        THEN (IF scn.use = "capture"
              THEN Inlined(0, <<FooPath, "/entry.ts">>,
                           {NamespaceObject(FooPath, "exports", "foo2")},
                           <<"exports", "foo2", "foo">>)
              ELSE Inlined(0, <<FooPath, "/entry.ts">>, {}, <<"foo2", "foo2", "foo">>))
        ELSE IF scn.graph = "exportStar"
        THEN (IF scn.use = "capture"
              THEN Inlined(1, <<FooPath, BarPath, "/entry.ts">>,
                           {NamespaceObject(BarPath, "bar", "foo2")},
                           <<"bar", "foo2", "foo">>)
              ELSE Inlined(1, <<FooPath, BarPath, "/entry.ts">>, {},
                           <<"foo2", "foo2", "foo">>))
        ELSE Inlined(1, <<FooPath, BarPath, "/entry.ts">>,
                     {NamespaceObject(FooPath, "exports", "foo2")},
                     IF scn.use = "capture" THEN <<"exports", "exports.foo", "foo">>
                     ELSE <<"exports.foo", "exports.foo", "foo">>)

\* The bundler is done and printed what the tests expect.
PrintedAsExpected == lpc = "done" /\ lscn \in TestedBundles => lout = ExpectedChunks(lscn)

\* The chunk of the single entry /entry.ts.
EntryChunk == lout["/entry.ts"]

\* The bundle is printed and holds ES modules only, none of them the target
\* of a require() call.
PrintedESM == lpc = "done" /\ lscn.fooKind = "esm" /\ ~lscn.require

\* C6: in a bundle of ES modules, foo.ts gets a namespace object (filled by
\* __export with a getter for its export foo) when the entry captures
\* "import * as ns" as a value, and the binding ns prints as that object;
\* when ns is only read through ns.foo no namespace object is printed and
\* every ns.foo prints as foo's renamed symbol.  A namespace object appears
\* only where some file holds a namespace as a value.
C6_NamespaceObjectIffCaptured ==
    PrintedESM =>
        /\ lscn.graph = "star" /\ lscn.use = "capture"
            => /\ EntryChunk = ExpectedChunks(lscn)["/entry.ts"]
               /\ EntryChunk.namespaces = {NamespaceObject(FooPath, "exports", "foo2")}
               /\ EntryChunk.log = <<"exports", "foo2", "foo">>
        /\ lscn.graph = "star" /\ lscn.use = "nocapture"
            => /\ EntryChunk = ExpectedChunks(lscn)["/entry.ts"]
               /\ EntryChunk.namespaces = {}
               /\ EntryChunk.wrappers = {}
               /\ EntryChunk.log = <<"foo2", "foo2", "foo">>
        /\ EntryChunk.namespaces # {}
            => \/ lscn.use = "capture"
               \/ /\ lscn.graph \in {"exportImportStar", "exportStarAs"}
                  /\ lscn.use # "unused"

\* ES6Capture is printed with foo's namespace object.
C6_CapturedNamespacePrinted ==
    /\ PrintedESM
    /\ lscn.graph = "star" /\ lscn.use = "capture"
    /\ \E n \in EntryChunk.namespaces : n.module = FooPath

\* C7: when the entry never references the namespace binding, the imported
\* module is left out of the bundle: the chunk holds the entry alone, with no
\* wrapped module, no namespace object and no __import call.
C7_UnusedImportOmitted ==
    lpc = "done" /\ lscn.use = "unused" =>
        /\ lscanned = {"/entry.ts"}
        /\ EntryChunk.body = <<"/entry.ts">>
        /\ EntryChunk.wrappers = {}
        /\ EntryChunk.namespaces = {}
        /\ EntryChunk.binds = {}
        /\ EntryChunk.log = <<"foo">>
        /\ EntryChunk.entryId = 0

\* CommonJSUnused is printed: foo.ts assigns to exports and is not there.
C7_UnusedCommonJSPrinted ==
    /\ lpc = "done"
    /\ lscn.use = "unused" /\ lscn.fooKind = "cjs"
    /\ FooPath \notin lscanned
    /\ "/entry.ts" \in DOMAIN lout

\* C8: when foo.ts assigns to exports, it is printed as a wrapped module
\* function taking exports, the entry binds the namespace with __import(id of
\* foo), and ns and ns.foo stay as written: nothing is inlined or rewritten.
C8_CommonJSTargetWrapped ==
    lpc = "done" /\ lscn.fooKind = "cjs" /\ lscn.use # "unused" =>
        /\ EntryChunk.wrappers = {[id |-> 1, path |-> FooPath, getters |-> {}]}
        /\ EntryChunk.binds = {[call |-> "__import", id |-> 1]}
        /\ EntryChunk.body = <<"/entry.ts">>
        /\ EntryChunk.namespaces = {}
        /\ EntryChunk.log = (IF lscn.use = "capture" THEN <<"ns", "ns.foo", "foo">>
                             ELSE <<"ns.foo", "ns.foo", "foo">>)

\* CommonJSCapture is printed with the wrapped foo.ts.
C8_WrappedModulePrinted ==
    /\ lpc = "done"
    /\ lscn.fooKind = "cjs" /\ lscn.use = "capture"
    /\ \E w \in EntryChunk.wrappers : w.path = FooPath

\* C9: with bar.ts holding "export * from './foo'" and the entry importing
\* "* as ns" from bar: a captured ns prints one namespace object, bar's, whose
\* getter foo is bound to foo.ts's symbol, and none for foo.ts; an ns read
\* only through ns.foo prints no namespace object and ns.foo is foo.ts's
\* symbol.
C9_ExportStarNamespace ==
    lpc = "done" /\ lscn.graph = "exportStar" =>
        /\ lscn.use = "capture"
            => /\ EntryChunk.namespaces = {NamespaceObject(BarPath, "bar", "foo2")}
               /\ EntryChunk.log = <<"bar", "foo2", "foo">>
               /\ EntryChunk.body = <<FooPath, BarPath, "/entry.ts">>
        /\ lscn.use = "nocapture"
            => /\ EntryChunk.namespaces = {}
               /\ EntryChunk.log = <<"foo2", "foo2", "foo">>
               /\ EntryChunk.body = <<FooPath, BarPath, "/entry.ts">>
        /\ EntryChunk.wrappers = {}

\* ES6ExportStarCapture is printed with bar's namespace object.
C9_BarNamespacePrinted ==
    /\ lpc = "done"
    /\ lscn.graph = "exportStar" /\ lscn.use = "capture"
    /\ \E n \in EntryChunk.namespaces : n.module = BarPath /\ n.name = "bar"

\* The first entry point of the bundle.
FirstEntry == EntryPaths(lscn)[1]

ChunkModules(c) == {w.path : w \in c.wrappers} \cup Range(c.body)

\* C11 as the tests pin it: without splitting every module of the bundle is in
\* the chunk of each entry that reaches it, once per chunk; foo.ts, which both
\* entries of ES6AndCommonJS import, is in both chunks.
C11_ModuleInEachReachingChunk ==
    lpc = "done" =>
        /\ \A m \in lscanned : \E e \in DOMAIN lout : m \in ChunkModules(lout[e])
        /\ \A e \in DOMAIN lout :
              /\ e \in ChunkModules(lout[e])
              /\ {w.path : w \in lout[e].wrappers} \cap Range(lout[e].body) = {}
              /\ Cardinality(Range(lout[e].body)) = Len(lout[e].body)
              /\ Cardinality({w.path : w \in lout[e].wrappers})
                    = Cardinality(lout[e].wrappers)
        /\ lscn.require
            => /\ ChunkModules(lout["/entry1.js"]) = {"/entry1.js", FooPath}
               /\ ChunkModules(lout["/entry2.js"]) = {"/entry2.js", FooPath}
        /\ ~lscn.require => ChunkModules(lout["/entry.ts"]) = lscanned

\* Both chunks of ES6AndCommonJS are printed and hold foo.ts.
C11_SharedModuleInBothChunks ==
    /\ lpc = "done"
    /\ lscn.require
    /\ \A e \in {"/entry1.js", "/entry2.js"} : FooPath \in ChunkModules(lout[e])

\* C11 as stated: every module of the bundle is in exactly one chunk.
C11_AsStated ==
    lpc = "done" =>
        \A m \in lscanned :
            Cardinality({e \in DOMAIN lout : m \in ChunkModules(lout[e])}) = 1

\* foo.ts as a wrapped module: a function taking exports that calls
\* __export(exports, {foo: () => foo}).
WrappedFoo(id) == [id |-> id, path |-> FooPath, getters |-> {Getter("foo")}]

\* C19: foo.ts, an ES module that /entry2.js require()s, is printed as the
\* wrapped module 2(exports) calling __export in the chunk of /entry2.js, which
\* binds it by __require(2), and in the chunk of /entry1.js, which only holds
\* "import * as ns" and binds it by __import(2); the id is the same in both
\* chunks, no namespace object is printed and ns.foo stays as written.
C19_RequiredModuleWrappedEverywhere ==
    lpc = "done" /\ lscn.require =>
        /\ \A e \in {"/entry1.js", "/entry2.js"} :
              /\ lout[e].wrappers = {WrappedFoo(lids[FooPath])}
              /\ lout[e].body = <<e>>
              /\ lout[e].namespaces = {}
        /\ lids[FooPath] = 2
        /\ lout["/entry1.js"].binds = {[call |-> "__import", id |-> 2]}
        /\ lout["/entry2.js"].binds = {[call |-> "__require", id |-> 2]}
        /\ lout["/entry2.js"].log = <<"ns.foo">>
        /\ lscn.use = "nocapture"
            => /\ lout["/entry1.js"].log = <<"ns.foo">>
               /\ lout = ExpectedChunks(lscn)

\* ES6AndCommonJS is printed: /entry1.js binds the wrapped foo.ts by __import.
C19_ImportOfWrappedModulePrinted ==
    /\ lpc = "done"
    /\ lscn.require /\ lscn.use = "nocapture"
    /\ \E b \in lout["/entry1.js"].binds : b.call = "__import"
    /\ \E w \in lout["/entry1.js"].wrappers : w.path = FooPath /\ w.getters # {}

\* The errors of the returned BuildResult that the stage came from.
ResultErrorsOfStage(stage) ==
    {i \in 1..Len(bresult[1].Errors) :
        StageOfMsg([Text |-> bresult[1].Errors[i]]) = stage}

\* C17 as the code has it: a BuildResult with an error of the validation, the
\* scan or the compilation has no output files; a BuildResult with output
\* files has no errors but those of writing them (stdout, the directory, the
\* file), and such an error leaves the output files in the result.
C17_FilesOnlyWithWriteErrors ==
    bpc = "done" =>
        /\ (\E stage \in {0, 1, 2} : ResultErrorsOfStage(stage) # {})
              => bresult[1].OutputFiles = <<>>
        /\ bresult[1].OutputFiles # <<>>
              => /\ ResultErrorsOfStage(3) = 1..Len(bresult[1].Errors)
                 /\ Len(bresult[1].OutputFiles) = bresults
        /\ ResultErrorsOfStage(3) # {}
              => Len(bresult[1].OutputFiles) = bresults

\* buildImpl returned after a writer failed: the error and the files are both
\* in the result.
C17_WriteErrorWithFiles ==
    /\ bpc = "done"
    /\ \E i \in 1..Len(bresult[1].Errors) :
          bresult[1].Errors[i] = "Failed to write to output file"
    /\ bresult[1].OutputFiles # <<>>

\* C17 as stated: a BuildResult with an error has no output files.
C17_AsStated ==
    bpc = "done" /\ bresult[1].Errors # <<>> => bresult[1].OutputFiles = <<>>

\* api.Build has come back to a runImpl building with --watch.
WatchedBuildBack ==
    /\ buildOptions # NIL
    /\ buildOptions[1].Watch
    /\ apiErrors # -1

\* C18: building with --watch, runImpl calls api.Build once and, when the
\* call is back, waits on its channel: it is blocked, has no exit code and
\* has printed no summary, with or without errors in the result, and from
\* there it takes no further step.
C18_WatchBlocksForever ==
    /\ [](WatchedBuildBack
            => /\ cpc = "blocked"
               /\ bpc = "done"
               /\ exitCode = -1
               /\ ~summaryPrinted)
    /\ [](cpc = "blocked" => WatchedBuildBack)
    /\ [][cpc = "blocked"
            => cpc' = "blocked" /\ exitCode' = -1 /\ ~summaryPrinted']_vars

\* runImpl is blocked after a watched build whose result holds an error.
C18_BlockedWithErrors ==
    /\ cpc = "blocked"
    /\ buildOptions[1].Watch
    /\ apiErrors > 0
    /\ exitCode = -1

\* C20 as stated: the platform and the source map that parseOptionsImpl stored
\* in the build options are values validatePlatform and validateSourceMap
\* map to a config value, so buildImpl gets past them (the format aside).
C20_AsStated ==
    bopts # NIL /\ validateFormat(bopts[1].Format) # PANIC =>
        /\ validatePlatform(bopts[1].Platform) # PANIC
        /\ validateSourceMap(bopts[1].Sourcemap) # PANIC
        /\ bpc # PANIC

\* The names given to the symbols before symbol i.
NamesBefore(i) == {rnames[j] : j \in 1..(i - 1)}

\* C12: the symbols of a chunk named so far have pairwise different names; a
\* symbol has its original name exactly when no symbol before it was given
\* that name, and otherwise the original name followed by the smallest
\* number from 2 on that gives a name not given before.  The entry's foo and
\* foo.ts's foo print as foo and foo2 (ES6Capture), two files' require_test
\* as require_test and require_test2 (LoaderFileMultipleNoCollision).
C12_EmittedNamesUnique ==
    /\ Len(rnames) <= Len(rsyms)
    /\ \A i, j \in 1..Len(rnames) : i # j => rnames[i] # rnames[j]
    /\ \A i \in 1..Len(rnames) :
          IF rsyms[i] \notin NamesBefore(i) THEN rnames[i] = rsyms[i]
          ELSE \E k \in 2..(Len(rsyms) + 1) :
                  /\ rnames[i] = rsyms[i] \o ToString(k)
                  /\ rnames[i] \notin NamesBefore(i)
                  /\ \A n \in 2..(k - 1) : rsyms[i] \o ToString(n) \in NamesBefore(i)
    /\ rsyms = <<"foo", "foo">> /\ Len(rnames) = 2
         => /\ rnames = <<"foo", "foo2">>
            /\ rnames[2] = FooSymbol([graph |-> "star", use |-> "capture",
                                      fooKind |-> "esm", require |-> FALSE],
                                     "/entry.ts", {})
    /\ rsyms = <<"require_test", "require_test">> /\ Len(rnames) = 2
         => rnames = <<"require_test", "require_test2">>

\* Three symbols named foo and one named foo2 are all renamed: the suffix 2
\* was taken when the last foo got its name.
C12_SuffixSkipsTakenName ==
    /\ rsyms = <<"foo", "foo2", "foo", "foo">>
    /\ rnames = <<"foo", "foo2", "foo3", "foo4">>

\* ---- the AMD options ---------------------------------------------------------------
\* The calls that are over, by a return or by a fault.
AllCallsOver == \A i \in 1..Len(acalls) : acalls[i].pc \in {"done", "panic"}

\* importPath with its longest segment-aligned prefix that is a key of paths
\* replaced by the value of the key, the empty path when no prefix is a key.
Rewritten(importPath, paths) ==
    LET keys == {k \in 1..Len(importPath) : SubSeq(importPath, 1, k) \in DOMAIN paths}
    IN IF keys = {} THEN <<>>
       ELSE LET k == CHOOSE k \in keys : \A m \in keys : m <= k
            IN Join(paths[SubSeq(importPath, 1, k)],
                    SubSeq(importPath, k + 1, Len(importPath)))

\* C13 as the specification states it: every invocation of mapSegmentedPath
\* gives the import path with its longest segment-aligned prefix among the
\* keys replaced by the mapped value and the remainder kept, the empty path
\* when no prefix is a key; "foo/baz" becomes "foo2/baz" and "foo/bar/baz"
\* becomes "foo/bar2/baz" under the paths of the doc comment.  The code
\* faults when the whole import path is a key whose value is ".".
C13_AsStated ==
    /\ mapSegmentedPath(<<"foo", "baz">>, DocPaths) = <<"foo2", "baz">>
    /\ mapSegmentedPath(<<"foo", "bar", "baz">>, DocPaths) = <<"foo", "bar2", "baz">>
    /\ \A i \in 1..Len(acalls) : \A j \in 1..Len(acalls[i].steps) :
           acalls[i].steps[j].result
               = Rewritten(acalls[i].steps[j].importPath, acalls[i].steps[j].paths)

\* The calls that have returned from ModuleNameToPath.
ReturnedFromName(call) ==
    \/ call.kind = "name" /\ call.pc = "done"
    \/ call.kind = "plugin" /\ call.pc = "mapped"

\* What the map step and the paths step are to give for an import of an
\* importer: the entry of the importer's scope, else the entry of "*", and
\* the paths applied to that or to the import itself.
ExpectedTarget(options, importPath, mappedSource) ==
    LET own == IF mappedSource \in DOMAIN options.Map
               THEN Rewritten(importPath, options.Map[mappedSource]) ELSE <<>>
        mapped == IF own # <<>> THEN own ELSE Rewritten(importPath, options.StarMap)
        viaPaths == Rewritten(IF mapped # <<>> THEN mapped ELSE importPath,
                              options.Paths)
    IN IF viaPaths # <<>> THEN viaPaths ELSE mapped

\* C14: a call of ModuleNameToPath that returns gives the entry of the
\* importer's own scope when it has one for the import, else the entry of the
\* "*" scope whoever the importer is, passed through the paths mapping (with
\* ".js" unless the extension is known), and the empty path when nothing maps.
C14_StarScopeBehindImporterScope ==
    \A i \in 1..Len(acalls) :
        ReturnedFromName(acalls[i]) =>
            LET target == ExpectedTarget(amdOptions[1], NameArgument(acalls[i]),
                                         acalls[i].mappedSource)
            IN acalls[i].result
                   = IF target = <<>> THEN <<>> ELSE WithJs(amdOptions[1], target)

\* The import dep returned for main, which has a scope with dep, and for
\* other, which has none, under a "*" scope with dep.
C14_ScopedAndStarImportsReturned ==
    /\ Len(acalls) = 2
    /\ amdOptions[1].Map = ScopedMap
    /\ amdOptions[1].StarMap = ScopedStar
    /\ acalls[1].sourcePath = MainJs /\ acalls[1].importPath = <<<<"dep">>>>
    /\ acalls[1].pc = "done" /\ acalls[1].result = <<"lib", "a.js">>
    /\ acalls[2].sourcePath = OtherJs /\ acalls[2].importPath = <<<<"dep">>>>
    /\ acalls[2].pc = "done" /\ acalls[2].result = <<"lib", "star.js">>

\* The resource a plugin expression stands for: the part behind the first
\* "!", with the first extension of the plugin when it appends one and the
\* script replacement applied.
ExpectedResource(options, importPath) ==
    IF importPath[1] \notin DOMAIN options.Plugins THEN importPath[2]
    ELSE LET plugin == options.Plugins[importPath[1]]
             appended == IF plugin.AppendFileExtension /\ plugin.FileExtensions # <<>>
                         THEN WithExtension(importPath[2], plugin.FileExtensions[1])
                         ELSE importPath[2]
         IN IF plugin.LoadScript # NIL
            THEN ReplaceAllString(plugin.LoadScript[1], appended) ELSE appended

\* C15 as the specification states it: for every specifier with a "!",
\* ParsePluginExpression gives the plugin, the resource and true when the
\* plugin part is not empty and is configured, and two empty strings and
\* false otherwise, and PluginExpressionToModulePath never faults and returns
\* the resource.  The code faults for a plugin that is not configured and
\* for one that appends an extension and lists none.
C15_AsStated ==
    \A i \in 1..Len(acalls) :
        UsesPlugin(acalls[i].importPath) =>
            /\ acalls[i].kind = "parse" /\ acalls[i].pc = "done" =>
                   acalls[i].result
                       = IF acalls[i].importPath[1] # <<>>
                            /\ acalls[i].importPath[1] \in DOMAIN amdOptions[1].Plugins
                         THEN <<acalls[i].importPath[1], acalls[i].importPath[2], TRUE>>
                         ELSE <<<<>>, <<>>, FALSE>>
            /\ acalls[i].kind = "plugin" =>
                   /\ acalls[i].pc # "panic"
                   /\ acalls[i].pc = "done" =>
                          acalls[i].result
                              = ExpectedResource(amdOptions[1], acalls[i].importPath)

\* backwardPaths after the calls from i on ran one after the other.
RECURSIVE BackwardInOrder(_, _, _, _)
BackwardInOrder(options, calls, i, backward) ==
    IF i > Len(calls) THEN backward
    ELSE LET importPath == IF calls[i].kind = "plugin"
                           THEN PluginResource(options, calls[i].importPath)
                           ELSE calls[i].importPath[1]
             r == NameToPath(options, importPath,
                             MappedSource(options, backward, calls[i].sourcePath))
         IN IF calls[i].kind = "parse" \/ importPath \in Faults \/ ~r.recorded
            THEN BackwardInOrder(options, calls, i + 1, backward)
            ELSE BackwardInOrder(options, calls, i + 1,
                                 (r.path :> importPath) @@ backward)

\* C16 as the specification states it: once all calls are over, the reverse
\* name map is the one of the calls made one after the other, whatever the
\* schedule was.  The code keeps the name of the call that wrote last, so two
\* names of one target path leave the name of either.
C16_AsStated ==
    AllCallsOver =>
        backwardPaths = BackwardInOrder(amdOptions[1], acalls, 1, <<>>)

\* ---- the source-map option of a build ------------------------------------------------
\* The positions of the source-map flags in an argument list.
SourceMapFlags(args) ==
    {i \in 1..Len(args) :
        args[i] = "--sourcemap" \/ HasPrefix(args[i], "--sourcemap=")}

\* TRUE when the list has an "--outfile=" or an "--outdir=".
HasOutputPath(args) ==
    \E i \in 1..Len(args) :
        HasPrefix(args[i], "--outfile=") \/ HasPrefix(args[i], "--outdir=")

\* The source-map option the last source-map flag of the list stands for.
LastSourceMap(args) ==
    IF SourceMapFlags(args) = {} THEN "SourceMapNone"
    ELSE LET last == CHOOSE i \in SourceMapFlags(args) :
                         \A j \in SourceMapFlags(args) : j <= i
         IN IF args[last] = "--sourcemap"
            THEN (IF HasOutputPath(args) THEN "SourceMapLinked" ELSE "SourceMapInline")
            ELSE IF args[last] = "--sourcemap=inline" THEN "SourceMapInline"
            ELSE IF args[last] = "--sourcemap=external" THEN "SourceMapExternal"
            ELSE "SourceMapInlineAndExternal"

\* C21: the build options parseOptionsForRun returns hold the source-map
\* option of the last source-map flag of the arguments: Inline for the bare
\* flag without an output path anywhere in the list, Linked for the bare flag
\* with one, else the value of the last "--sourcemap=" flag.
C21_LastSourceMapFlagDecides ==
    buildOptions # NIL => buildOptions[1].Sourcemap = LastSourceMap(pargs)

\* A build whose bare flag follows a valued one and precedes the output path.
C21_BareFlagBetweenValueAndOutfile ==
    /\ buildOptions # NIL
    /\ pargs = <<"--bundle", "--sourcemap=external", "--sourcemap", "--outfile=out.js">>
    /\ buildOptions[1].Sourcemap = "SourceMapLinked"

\* ---- the output format ---------------------------------------------------------------
\* C22 as the specification states it: a call of buildImpl or analyseImpl
\* that is past its option validation has options whose output format is
\* FormatJoin exactly when an AMD config path was given, whatever format was
\* asked for and whether or not the file could be parsed; without one,
\* bundling with no format asked for gives IIFE on the browser platform and
\* CommonJS on node.  A call with a format or a platform its validators do
\* not know ends in a panic and derives no options.
C22_AsStated ==
    /\ (bopts # NIL /\ bpc # "validate") =>
          /\ bcfg # NIL
          /\ bcfg[1].OutputFormat = "config.FormatJoin" <=> bopts[1].AMDConfig # ""
          /\ bopts[1].AMDConfig = "" /\ bopts[1].Bundle /\ bopts[1].Format = "FormatDefault" =>
                 bcfg[1].OutputFormat
                     = IF bopts[1].Platform = "PlatformBrowser" THEN "config.FormatIIFE"
                       ELSE "config.FormatCommonJS"
    /\ (aopts # NIL /\ apc # "validate") =>
          /\ acfg # NIL
          /\ acfg[1].OutputFormat = "config.FormatJoin" <=> aopts[1].AMDConfig # ""
          /\ aopts[1].AMDConfig = "" /\ aopts[1].Bundle =>
                 acfg[1].OutputFormat
                     = IF aopts[1].Platform = "PlatformBrowser" THEN "config.FormatIIFE"
                       ELSE "config.FormatCommonJS"

\* ---- the keys of the defines ----------------------------------------------------------
\* TRUE for a key that is a dot-separated list of identifiers.
IdentifierList(key) == \A i \in 1..Len(key) : IsIdentifier(key[i])

\* C23 as the specification states it: once validateDefines is through, every
\* define key and every pure-function name that is no dot-separated list of
\* identifiers has an error in the log and no definition in the processed
\* defines.  The code logs the error and records the definition all the same:
\* the "continue" behind the error belongs to the loop over the parts.
C23_AsStated ==
    dpc = "done" =>
        /\ \A key \in DOMAIN ddefines :
               ~IdentifierList(key) =>
                   /\ \E i \in 1..Len(dlog) : dlog[i].Text = <<"Invalid define key", key>>
                   /\ key \notin DOMAIN rawDefines
        /\ \A j \in 1..Len(dpureFns) :
               ~IdentifierList(dpureFns[j]) =>
                   /\ \E i \in 1..Len(dlog) :
                          dlog[i].Text = <<"Invalid pure function", dpureFns[j]>>
                   /\ dpureFns[j] \notin DOMAIN rawDefines

\* ---- splitting in analyseImpl ---------------------------------------------------------
\* TRUE when the log of analyseImpl holds the error of the splitting check.
SplittingRefused ==
    \E i \in 1..Len(alog) :
        alog[i] = Msg("error", "Splitting currently only works with the \"esm\" format")

\* C28 as the specification states it: a call of analyseImpl with Splitting
\* that has ended has logged the error of the splitting check and has made no
\* metadata.  A call with a platform validatePlatform does not know ends in
\* a panic before anything is logged.
C28_AsStated ==
    (aopts # NIL /\ aopts[1].Splitting /\ apc \in {"done", PANIC}) =>
        SplittingRefused /\ ametadata = NIL

\* ---- the options struct of the selected command ---------------------------------------
\* C26 as the specification states it: parseOptionsImpl never stores a flag
\* through a nil options pointer, and the analyse branch of runImpl takes
\* NODE_PATH without going through the build options.  The cases of
\* "--splitting", "--platform=", "--format=", "--charset=" and of an entry
\* point choose between two of the three pointers only, and the analyse
\* branch assigns buildOptions.NodePaths.
C26_AsStated ==
    /\ ~pst.panic
    /\ ~(pcmd = "analyse" /\ envNodePath = "set" /\ buildOptions = NIL /\ cpc = "panic")

\* ---- external modules -----------------------------------------------------------------
\* What the specification gives for IsExternalModule: the "*" scope is
\* applied to the import path, and the longest segment-aligned prefix of what
\* it gives that is a key of paths has a value that begins with "empty:".
ExpectedExternal(options, importPath) ==
    LET mapped == Rewritten(importPath, options.StarMap)
        path == IF mapped # <<>> THEN mapped ELSE importPath
        keys == {k \in 1..Len(path) : SubSeq(path, 1, k) \in DOMAIN options.Paths}
    IN /\ keys # {}
       /\ HasEmptyPrefix(
              options.Paths[SubSeq(path, 1, CHOOSE k \in keys : \A j \in keys : j <= k)])

\* The options of the README.
ReadmeOptions ==
    [AMDOptionsInit(BaseUrl) EXCEPT !.Paths = ReadmePaths, !.StarMap = ReadmeStar]

\* C24 as the specification states it: every call of IsExternalModule that
\* is over has returned, with TRUE exactly when the longest prefix among the
\* keys of paths of the import path behind the "*" scope has a value that
\* begins with "empty:"; under the README "external/x" is external and
\* "external/libs/jquery" is not.  The call of mapSegmentedPath on the "*"
\* scope faults for an import path that is a key with the value ".".
C24_AsStated ==
    /\ IsExternalModule(ReadmeOptions, <<"external", "x">>).external
    /\ ~IsExternalModule(ReadmeOptions, <<"external", "libs", "jquery">>).external
    /\ \A i \in 1..Len(acalls) :
           (acalls[i].kind = "external" /\ acalls[i].pc \in {"done", "panic"}) =>
               /\ acalls[i].pc = "done"
               /\ acalls[i].external
                      = ExpectedExternal(amdOptions[1], acalls[i].importPath[1])

\* ---- the slices of mapSegmentedPath -----------------------------------------------------
\* C27 as the specification states it: no invocation of mapSegmentedPath, by
\* ModuleNameToPath or by IsExternalModule, ends in a slice out of range.
\* importPath[separator+1:] is out of range when the whole import path is a
\* key of the value ".", as "internal" is under the README.
C27_AsStated ==
    \A i \in 1..Len(acalls) :
        /\ acalls[i].result # SliceFault
        /\ \A j \in 1..Len(acalls[i].steps) : acalls[i].steps[j].result # SliceFault

\* ---- the plugins of a configuration file ------------------------------------------------
\* The names and the file extensions of the plugins a "plugins" object lists.
NamedPlugins(plugins) ==
    {plugins.properties[i].key : i \in 1..Len(plugins.properties)}
ListedExtensions(plugins) ==
    UNION {Range(plugins.properties[i].value.fileExtensions[1]) :
              i \in {j \in 1..Len(plugins.properties) :
                         plugins.properties[j].value.fileExtensions # NIL}}

\* C30: after a successful parseAMDConfig of a file with a "plugins" object
\* the plugins are exactly those the object names and the known extensions
\* are ".js" and those the plugins list; after one of a file without
\* "plugins" both are as Init left them.
C30_PluginsReplaceDefaults ==
    (amdJson # NIL /\ amdJson[1].state = "parsed") =>
        IF amdJson[1].doc.plugins # NIL
        THEN /\ DOMAIN amdOptions[1].Plugins = NamedPlugins(amdJson[1].doc.plugins[1])
             /\ amdOptions[1].KnownFileExtensions
                    = {".js"} \cup ListedExtensions(amdJson[1].doc.plugins[1])
        ELSE /\ amdOptions[1].Plugins = AMDOptionsInit(BaseUrl).Plugins
             /\ amdOptions[1].KnownFileExtensions
                    = AMDOptionsInit(BaseUrl).KnownFileExtensions

\* The configuration of the README was parsed: the text plugin and ".txt"
\* are gone, i18n is there.
C30_ReadmePluginsParsed ==
    /\ amdJson # NIL
    /\ amdJson[1].state = "parsed"
    /\ amdJson[1].doc.plugins = Ref([object |-> TRUE, properties |-> ReadmePlugins])
    /\ DOMAIN amdOptions[1].Plugins = {<<"json">>, <<"css">>, <<"i18n">>}
    /\ amdOptions[1].KnownFileExtensions = {".js", ".json", ".css"}

\* ---- the writers of buildImpl -----------------------------------------------------------
\* One writer per result, the WaitGroup counting those that have not called
\* Done, and no step of buildImpl behind Wait while a writer is at work.
WritersAccounted ==
    /\ writers # <<>> => Len(writers) = bresults
    /\ bpc = "wait" =>
           wgCount = Cardinality({i \in DOMAIN writers : writers[i] # "done"})
    /\ (writers # <<>> /\ bpc \in {"files", "collect", "done"}) =>
           /\ wgCount = 0
           /\ \A i \in DOMAIN writers : writers[i] = "done"

\* C25: buildImpl has one writer per result, each calls Done once whatever
\* became of its directory and its file, buildImpl goes on behind Wait only
\* when all have, and a buildImpl that waits gets to return.
C25_WritersAllDoneThenReturn ==
    /\ []WritersAccounted
    /\ (bpc = "wait") ~> (bpc = "done")

\* buildImpl has returned behind two writers, one of which could not make its
\* directory and one of which could not write its file.
C25_ReturnedBehindFailedWriters ==
    /\ bpc = "done"
    /\ Len(writers) = 2
    /\ \A i \in DOMAIN writers : writers[i] = "done"
    /\ \E i \in 1..Len(blog) : blog[i] = Msg("error", "Failed to create output directory")
    /\ \E i \in 1..Len(blog) : blog[i] = Msg("error", "Failed to write to output file")

\* ---- the cache of compiled filters ------------------------------------------------------
\* C29: a call is at a read or a write of filterCache only while it holds
\* filterMutex; the cache holds regular expressions alone, each under its own
\* source; a call that is over has the expression of its filter exactly when
\* the filter is a regular expression, and an error otherwise.
C29_CacheUnderMutex ==
    /\ \A i \in 1..Len(fcalls) :
           /\ fcalls[i].pc \in {"read", "write"} => filterMutex = i
           /\ fcalls[i].pc = "done" =>
                  IF IsRegexp(fcalls[i].filter)
                  THEN /\ fcalls[i].result # NIL
                       /\ fcalls[i].result[1].source = fcalls[i].filter
                       /\ fcalls[i].err = ""
                  ELSE /\ fcalls[i].result = NIL
                       /\ fcalls[i].err # ""
    /\ filterCache # NIL =>
           \A f \in DOMAIN filterCache[1] :
               /\ f # ""
               /\ IsRegexp(f)
               /\ filterCache[1][f] # NIL
               /\ filterCache[1][f][1].source = f

\* Two calls with one filter have both compiled it, a third took it from the
\* cache, and a call with what is no regular expression is over.
C29_CompiledTwiceThenHit ==
    /\ Len(fcalls) = 3
    /\ \A i \in 1..3 : fcalls[i].pc = "done"
    /\ \E i, j, k \in 1..3 :
           /\ fcalls[i].filter = "a+" /\ fcalls[j].filter = "a+" /\ fcalls[k].filter = "a+"
           /\ fcalls[i].result = Regexp("a+", i)
           /\ fcalls[j].result = Regexp("a+", j)
           /\ i # j
           /\ fcalls[k].ok

============================================================================
